---- MODULE Spec2Model ----
(***************************************************************************)
(* Verification model of the mail autoresponder.                           *)
(*                                                                         *)
(* Part A: TaskRunner (jbmailbot/runtask.py): the asyncio driver loop      *)
(*         run_forever, start / cancel / wait, plus the stop() / result()  *)
(*         operations of llmailbot.taskrun, whose source is not part of    *)
(*         the tree and which are modelled from the written specification. *)
(* Part B: MemoryQueue / ManagedMemoryQueue (llmailbot/queue.py) over      *)
(*         queue.Queue, with concurrent producers and consumers.           *)
(* Part C: the in-process and the cross-process queue variants of both     *)
(*         packages (llmailbot/queue.py, jbmailbot/mailqueue.py) driven    *)
(*         side by side by one caller.                                     *)
(* Part D: the security rules and the SecurityFilter                       *)
(*         (llmailbot/security.py).                                        *)
(* Part E: the fetch -> reply -> send pipeline: FetchMailTask of both      *)
(*         packages (llmailbot/email/fetch.py, jbmailbot/mailfetch.py),    *)
(*         RunBotTask (jbmailbot/mailbot.py) and SendMailTask              *)
(*         (llmailbot/email/send.py) around the two queues.                *)
(* Part F: SimpleEmail.reply of both packages (llmailbot/email/model.py,   *)
(*         jbmailbot/email/model.py).                                      *)
(* Part G: application assembly: LLMailBotConfig (llmailbot/config.py) and *)
(*         run_app (llmailbot/core.py).                                    *)
(***************************************************************************)
EXTENDS Integers, Sequences, FiniteSets, TLC

\* ------------------------------------------------------------------ bounds
MaxTime == 3
MaxSteps == 2
MaxStarts == 2
MaxInterval == 2
NThreads == 2
MaxPuts == 3
MaxCap == 2
MaxTimeout == 1
MaxBody == 4
MaxKey == 2
MaxRechecks == 2
MaxClock == 4
MaxChecks == 4
MaxLimit == 2
MaxWindow == 2
MaxApplies == 3
NMsgs == 2
MaxFetches == 2
MaxRetries == 2
MaxOutCap == 1

\* ------------------------------------------------------------------ state
VARIABLES
    running_task,   \* TaskRunner.running_task: "None" or "Task"
    pc,             \* position of the run_forever coroutine
    state,          \* runner state: NEW, RUNNING, COMPLETED, STOPPED, CANCELLED, FAILED
    interval,       \* the interval given to start(); 0 stands for None
    start_time,     \* start_time of the current iteration
    wake_at,        \* time at which the pending asyncio.sleep is due
    now,            \* time.time()
    cancel_req,     \* cancellation requested on the asyncio task, not yet delivered
    stop_req,       \* stop() was requested
    done,           \* value carried by TaskDone, "None" when there is none
    error,          \* exception the driver ended with, "None" when there is none
    executor,       \* TRUE: SyncTaskRunner (step runs in the pool); FALSE: AsyncTaskRunner
    orphans,        \* steps still running in the pool whose driver was cancelled
    starts,         \* number of successful start() calls
    steps_begun,    \* step() invocations begun by the current driver
    steps_after_stop, \* step() invocations begun by the current driver after stop()
    in_progress,    \* step() invocations the current driver is awaiting
    prev_end,       \* end time of the previous step of the current driver
    n_raised,       \* steps of the current driver that raised
    last_raised,    \* the error the last such step raised
    n_hook,         \* on_task_exception calls of the current driver
    last_hook_arg,  \* the argument of the last such call
    n_on_cancelled, \* on_task_cancelled calls of the current driver
    n_on_stopped,   \* on_stopped calls of the current driver
    last_call,      \* outcome of the last API call on the runner
    msgq,           \* MemoryQueue.msgq: the items held by the queue.Queue, head first
    maxsize,        \* capacity given at construction, 0 = unbounded
    q_thr,          \* per thread: the queue call it is blocked in, if any
    q_ret,          \* what the last put/get call to end returned or raised, and to whom
    next_item,      \* identity of the next item handed to put
    put_log,        \* items in the order their put took effect
    get_log,        \* items in the order get returned them
    pkg,            \* the package the two queue variants are taken from
    mq,             \* the in-process variant: MemoryQueue / MailQueue
    gq,             \* the cross-process variant: ManagedMemoryQueue / ManagedMailQueue
    eq_ret,         \* what the last call returned on each of the two variants
    eq_next,        \* identity of the next item handed to put on both variants
    email,          \* the message under check: addr_from and body
    secret_key,     \* SecretKeyRule.secret_key
    sk_log,         \* the checks SecretKeyRule made: body before, action, reason
    fs_entries,     \* the addresses FilterSenderRule was built from
    fs_mode,        \* FilterSenderRule.mode
    fs_rule,        \* FilterSenderRule.addresses and FilterSenderRule.domains
    fs_result,      \* the result of the last FilterSenderRule.check
    clock,          \* datetime.datetime.now()
    rl_limit,       \* RateLimitRule.limit
    rl_duration,    \* RateLimitRule.duration
    rl,             \* RateLimitRule.count and RateLimitRule.limit_expiry
    rl_log,         \* the checks RateLimitRule made: time, action, count and expiry after
    pk_kind,        \* "per-sender": RateLimitPerSenderRule, "per-domain": RateLimitPerDomainRule
    pk,             \* its rate_limits (in dict order) and _next_purge
    pk_log,         \* the checks the rule made: time, key, and action or the error raised
    rules,          \* SecurityFilter.rules: the rule objects, in order
    applied,        \* the last SecurityFilter.apply: rules evaluated, and what it returned
    applies,        \* number of apply calls made
    pipe,           \* the mail pipeline: fetch task, mail server, the two queues, reply task
    rep,            \* the reply builder: the original, the bot's address, the reply built
    app,            \* the application: its configuration, run_app, the three runners
    duo,             \* two runners made from one task: the runners and the task they share
    race,            \* one rate-limit rule checked from several threads at once
    halt            \* one stage runner that is asked to stop while its queues stay empty or full

\* --- the fields of pipe
fetch_pkg == pipe.fetch_pkg      \* the package the FetchMailTask is taken from
on_fetch == pipe.on_fetch        \* the fetch mode: MARK_READ or DELETE
sec_filter == pipe.sec_filter    \* FetchMailTask.sec_filter: its rules, <<>> stands for None
inbox == pipe.inbox              \* the messages on the mail server: uid present, sender, still there, seen
incoming == pipe.incoming        \* the incoming queue: fetched messages, head first
outgoing == pipe.outgoing        \* the outgoing queue: replies, head first
out_maxsize == pipe.out_maxsize  \* capacity of the outgoing queue, 0 = unbounded
retries == pipe.retries          \* RunBotTask.retries
cur == pipe.cur                  \* the message the reply step is working on, 0 when there is none
attempts == pipe.attempts        \* passes through the retry loop made for cur
fetch_state == pipe.fetch_state  \* state of the fetch runner
fetches == pipe.fetches          \* number of fetch steps begun
last_fetch == pipe.last_fetch    \* the last fetch step: its batch, the filter verdicts, the puts, the outcome
handed == pipe.handed            \* originals of the replies handed to the sender, in order
last_send == pipe.last_send      \* how the last hand-over to the sender ended
send_state == pipe.send_state    \* state of the send runner
fetch_max == pipe.fetch_max      \* config.fetch_max: the limit passed to mailbox.fetch
fetched_times == pipe.fetched_times  \* per message, the number of fetch steps whose fetch returned it
received == pipe.received        \* messages in the order they were put on the incoming queue
taken == pipe.taken              \* messages in the order they were taken from the incoming queue
replied == pipe.replied          \* originals in the order their replies were put on the outgoing queue
last_reply == pipe.last_reply    \* the last pass of the reply step: message, attempts, outcome, return value

\* --- the fields of rep
reply_pkg == rep.reply_pkg       \* the package SimpleEmail is taken from
original == rep.original         \* the message replied to: addr_from, subject, message_id, references
send_from == rep.send_from       \* the bot's address
reply_msg == rep.reply_msg       \* the SimpleEmail that SimpleEmail.reply returned

\* --- the fields of app
config == app.config             \* LLMailBotConfig: models, worker_pool.worker_type, receive_queue, send_queue
app_pc == app.app_pc             \* position of run_app: new, configured, gathering, raised, returned
app_exc == app.app_exc           \* the exception run_app raised to its caller, None when there is none
app_executor == app.app_executor \* the executor run_app made: None, thread or process
app_queues == app.app_queues     \* the kinds of the two queues run_app made
runners == app.runners           \* per stage: state of its runner, its error, number of start() calls
gather_exc == app.gather_exc     \* the exception set on the future of asyncio.gather, None when there is none
first_error == app.first_error   \* the error of the runner that failed first, None when none failed

timeVars == <<interval, start_time, wake_at, prev_end>>
stepVars == <<steps_begun, steps_after_stop, in_progress>>
hookVars == <<n_raised, last_raised, n_hook, last_hook_arg, n_on_cancelled, n_on_stopped>>
runnerVars == <<running_task, pc, state, now, cancel_req, stop_req, done, error,
                executor, orphans, starts, timeVars, stepVars, hookVars, last_call>>

queueVars == <<msgq, maxsize, q_thr, q_ret, next_item, put_log, get_log>>

equivVars == <<pkg, mq, gq, eq_ret, eq_next>>

secretVars == <<secret_key, sk_log>>
senderVars == <<fs_entries, fs_mode, fs_rule, fs_result>>
rateVars == <<rl_limit, rl_duration, rl, rl_log>>
keyedVars == <<pk_kind, pk, pk_log>>
filterVars == <<rules, applied, applies>>
secVars == <<email, secretVars, senderVars, clock, rateVars, keyedVars, filterVars>>

pipeVars == <<pipe>>

replyVars == <<rep>>

appVars == <<app>>

duoVars == <<duo>>

raceVars == <<race>>

haltVars == <<halt>>

\* What the actions of one component leave alone.
notRunnerVars == <<queueVars, equivVars, secVars, pipeVars, replyVars, appVars, duoVars, raceVars, haltVars>>
notQueueVars == <<runnerVars, equivVars, secVars, pipeVars, replyVars, appVars, duoVars, raceVars, haltVars>>
notEquivVars == <<runnerVars, queueVars, secVars, pipeVars, replyVars, appVars, duoVars, raceVars, haltVars>>
notSecVars == <<runnerVars, queueVars, equivVars, pipeVars, replyVars, appVars, duoVars, raceVars, haltVars>>
notPipeVars == <<runnerVars, queueVars, equivVars, secVars, replyVars, appVars, duoVars, raceVars, haltVars>>
notReplyVars == <<runnerVars, queueVars, equivVars, secVars, pipeVars, appVars, duoVars, raceVars, haltVars>>
notAppVars == <<runnerVars, queueVars, equivVars, secVars, pipeVars, replyVars, duoVars, raceVars, haltVars>>
notDuoVars == <<runnerVars, queueVars, equivVars, secVars, pipeVars, replyVars, appVars, raceVars, haltVars>>
notRaceVars == <<runnerVars, queueVars, equivVars, secVars, pipeVars, replyVars, appVars, duoVars, haltVars>>
notHaltVars == <<runnerVars, queueVars, equivVars, secVars, pipeVars, replyVars, appVars, duoVars, raceVars>>

vars == <<runnerVars, queueVars, equivVars, secVars, pipeVars, replyVars, appVars, duoVars, raceVars, haltVars>>

Values == {"v1", "v2"}
Errors == {"e1", "e2"}
Terminal == {"COMPLETED", "STOPPED", "CANCELLED", "FAILED"}
Pending == {"scheduled", "step", "sleep"}

Call(op, out, val) == [op |-> op, out |-> out, val |-> val]

\* ------------------------------------------------------------------ driver
\* A loop iteration begins: start_time = time.time(); await self._run_async()
BeginStep ==
    /\ steps_begun < MaxSteps
    /\ start_time' = now
    /\ pc' = "step"
    /\ steps_begun' = steps_begun + 1
    /\ steps_after_stop' = IF stop_req THEN steps_after_stop + 1 ELSE steps_after_stop
    /\ in_progress' = in_progress + 1

\* A cadence measured from the end of the step instead of its start.
until_next_call_from_end == interval

\* until_next_call = start_time + interval - time.time()
until_next_call == start_time + interval - now

\* A driver that never looks at the stop request.
StopRequested_ignored == FALSE

\* Driver step 3: "If a stop has been requested".
StopRequested == stop_req

\* The driver observes a requested stop: on_stopped hook, STOPPED.
ObserveStop ==
    /\ state' = "STOPPED"
    /\ pc' = "ended"
    /\ n_on_stopped' = n_on_stopped + 1

\* if interval: ... if until_next_call > 0.0: await asyncio.sleep(until_next_call)
NeedsSleep == interval # 0 /\ until_next_call > 0

\* The rest of the loop body once the step has returned without TaskDone or
\* its exception was handled: stop check, then the interval sleep or the
\* next iteration.
AfterStep ==
    /\ prev_end' = now
    /\ IF StopRequested
       THEN /\ ObserveStop
            /\ in_progress' = in_progress - 1
            /\ UNCHANGED <<start_time, wake_at, steps_begun, steps_after_stop>>
       ELSE IF NeedsSleep
       THEN /\ pc' = "sleep"
            /\ wake_at' = now + until_next_call
            /\ in_progress' = in_progress - 1
            /\ UNCHANGED <<state, start_time, steps_begun, steps_after_stop, n_on_stopped>>
       ELSE /\ steps_begun < MaxSteps
            /\ start_time' = now
            /\ pc' = "step"
            /\ steps_begun' = steps_begun + 1
            /\ UNCHANGED <<state, wake_at, steps_after_stop, in_progress, n_on_stopped>>

\* The event loop runs the coroutine created by start() for the first time.
run_forever_enter ==
    /\ UNCHANGED notRunnerVars
    /\ pc = "scheduled" /\ ~cancel_req
    /\ BeginStep
    /\ UNCHANGED <<running_task, state, now, cancel_req, stop_req, done, error, executor,
                   orphans, starts, interval, wake_at, prev_end, hookVars, last_call>>

\* step() returns None (continue).
step_continue ==
    /\ UNCHANGED notRunnerVars
    /\ pc = "step" /\ ~cancel_req
    /\ AfterStep
    /\ UNCHANGED <<running_task, now, cancel_req, stop_req, done, error, executor, orphans,
                   starts, interval, n_raised, last_raised, n_hook, last_hook_arg,
                   n_on_cancelled, last_call>>

\* step() returns TaskDone(v): the driver returns v.
step_done(v) ==
    /\ UNCHANGED notRunnerVars
    /\ pc = "step" /\ ~cancel_req
    /\ state' = "COMPLETED"
    /\ done' = v
    /\ pc' = "ended"
    /\ in_progress' = in_progress - 1
    /\ prev_end' = now
    /\ UNCHANGED <<running_task, now, cancel_req, stop_req, error, executor, orphans, starts,
                   interval, start_time, wake_at, steps_begun, steps_after_stop, hookVars,
                   last_call>>

\* A driver that swallows what the exception hook re-raises and loops on.
step_raises_swallow(e, reraise) ==
    /\ UNCHANGED notRunnerVars
    /\ pc = "step" /\ ~cancel_req
    /\ n_raised' = n_raised + 1
    /\ last_raised' = e
    /\ n_hook' = n_hook + 1
    /\ last_hook_arg' = e
    /\ AfterStep
    /\ UNCHANGED <<running_task, now, cancel_req, stop_req, done, error, executor, orphans,
                   starts, interval, n_on_cancelled, last_call>>

\* step() raises e: self.task.on_task_exception(e); the hook returns or re-raises.
step_raises(e, reraise) ==
    /\ UNCHANGED notRunnerVars
    /\ pc = "step" /\ ~cancel_req
    /\ n_raised' = n_raised + 1
    /\ last_raised' = e
    /\ n_hook' = n_hook + 1
    /\ last_hook_arg' = e
    /\ IF reraise
       THEN /\ state' = "FAILED"
            /\ error' = e
            /\ pc' = "ended"
            /\ in_progress' = in_progress - 1
            /\ prev_end' = now
            /\ UNCHANGED <<start_time, wake_at, steps_begun, steps_after_stop, n_on_stopped>>
       ELSE /\ AfterStep
            /\ UNCHANGED error
    /\ UNCHANGED <<running_task, now, cancel_req, stop_req, done, executor, orphans, starts,
                   interval, n_on_cancelled, last_call>>

\* asyncio.sleep(until_next_call) is due: next loop iteration.
sleep_wakes ==
    /\ UNCHANGED notRunnerVars
    /\ pc = "sleep" /\ ~cancel_req
    /\ now >= wake_at
    /\ BeginStep
    /\ wake_at' = 0
    /\ UNCHANGED <<running_task, state, now, cancel_req, stop_req, done, error, executor,
                   orphans, starts, interval, prev_end, hookVars, last_call>>

\* A cancellation that also interrupts the worker running the step.
StepAbandoned_interrupted(p, ex) == FALSE

\* The driver is cancelled while it awaits loop.run_in_executor(executor,
\* task.run): the await is abandoned and the worker is left running the step.
StepAbandoned(p, ex) == p = "step" /\ ex

\* The event loop delivers the requested cancellation to the driver at its
\* suspension point.  A coroutine that has not run yet is cancelled without
\* entering its body; otherwise CancelledError is raised at the await inside
\* the try block: on_task_cancelled(), return None.
deliver_cancel ==
    /\ UNCHANGED notRunnerVars
    /\ cancel_req /\ pc \in Pending
    /\ cancel_req' = FALSE
    /\ state' = "CANCELLED"
    /\ pc' = "ended"
    /\ wake_at' = 0
    /\ n_on_cancelled' = IF pc = "scheduled" THEN n_on_cancelled ELSE n_on_cancelled + 1
    /\ in_progress' = IF pc = "step" THEN in_progress - 1 ELSE in_progress
    /\ orphans' = IF StepAbandoned(pc, executor) THEN orphans + 1 ELSE orphans
    /\ UNCHANGED <<running_task, now, stop_req, done, error, executor, starts, interval,
                   start_time, prev_end, steps_begun, steps_after_stop, n_raised, last_raised,
                   n_hook, last_hook_arg, n_on_stopped, last_call>>

\* What a hook of the task may raise.
HookErrors == {"h1"}

\* The cancellation is delivered inside the try block and on_task_cancelled()
\* raises e: the call is made in the except clause of run_forever, nothing
\* encloses it, and the driver ends with e instead of returning None.
deliver_cancel_hook_raises(e) ==
    /\ UNCHANGED notRunnerVars
    /\ cancel_req /\ pc \in Pending /\ pc # "scheduled"
    /\ cancel_req' = FALSE
    /\ state' = "FAILED"
    /\ error' = e
    /\ pc' = "ended"
    /\ wake_at' = 0
    /\ n_on_cancelled' = n_on_cancelled + 1
    /\ in_progress' = IF pc = "step" THEN in_progress - 1 ELSE in_progress
    /\ orphans' = IF StepAbandoned(pc, executor) THEN orphans + 1 ELSE orphans
    /\ UNCHANGED <<running_task, now, stop_req, done, executor, starts, interval,
                   start_time, prev_end, steps_begun, steps_after_stop, n_raised, last_raised,
                   n_hook, last_hook_arg, n_on_stopped, last_call>>

\* A step abandoned by a cancelled driver finishes in the pool; its outcome
\* is discarded.
worker_finishes ==
    /\ UNCHANGED notRunnerVars
    /\ orphans > 0
    /\ orphans' = orphans - 1
    /\ UNCHANGED <<running_task, pc, state, now, cancel_req, stop_req, done, error, executor,
                   starts, timeVars, stepVars, hookVars, last_call>>

\* Time passes.
tick ==
    /\ UNCHANGED notRunnerVars
    /\ now < MaxTime
    /\ now' = now + 1
    /\ UNCHANGED <<running_task, pc, state, cancel_req, stop_req, done, error, executor,
                   orphans, starts, timeVars, stepVars, hookVars, last_call>>

\* ------------------------------------------------------------------ runner API
start(i) ==
    /\ UNCHANGED notRunnerVars
    /\ IF running_task # "None"
       THEN /\ last_call' = Call("start", "RuntimeError", "already running")
            /\ UNCHANGED <<running_task, pc, state, now, cancel_req, stop_req, done, error,
                           executor, orphans, starts, timeVars, stepVars, hookVars>>
       ELSE /\ starts < MaxStarts
            /\ running_task' = "Task"
            /\ pc' = "scheduled"
            /\ state' = "RUNNING"
            /\ interval' = i
            /\ starts' = starts + 1
            /\ cancel_req' = FALSE
            /\ done' = "None"
            /\ error' = "None"
            /\ start_time' = 0
            /\ wake_at' = 0
            /\ prev_end' = 0
            /\ steps_begun' = 0
            /\ steps_after_stop' = 0
            /\ in_progress' = 0
            /\ n_raised' = 0
            /\ last_raised' = "None"
            /\ n_hook' = 0
            /\ last_hook_arg' = "None"
            /\ n_on_cancelled' = 0
            /\ n_on_stopped' = 0
            /\ last_call' = Call("start", "ok", "None")
            /\ UNCHANGED <<now, stop_req, executor, orphans>>

\* A cancel() that never cancels the asyncio task.
cancel_noop ==
    /\ UNCHANGED notRunnerVars
    /\ IF running_task = "None"
       THEN /\ last_call' = Call("cancel", "RuntimeError", "not running")
            /\ UNCHANGED <<running_task, pc, state, now, cancel_req, stop_req, done, error,
                           executor, orphans, starts, timeVars, stepVars, hookVars>>
       ELSE /\ last_call' = Call("cancel", "ok", "None")
            /\ UNCHANGED <<running_task, pc, state, now, cancel_req, stop_req, done, error,
                           executor, orphans, starts, timeVars, stepVars, hookVars>>

\* cancel(): RuntimeError when there is no driver, else running_task.cancel()
cancel ==
    /\ UNCHANGED notRunnerVars
    /\ IF running_task = "None"
       THEN /\ last_call' = Call("cancel", "RuntimeError", "not running")
            /\ UNCHANGED <<running_task, pc, state, now, cancel_req, stop_req, done, error,
                           executor, orphans, starts, timeVars, stepVars, hookVars>>
       ELSE /\ cancel_req' = (cancel_req \/ pc \in Pending)
            /\ last_call' = Call("cancel", "ok", "None")
            /\ UNCHANGED <<running_task, pc, state, now, stop_req, done, error, executor,
                           orphans, starts, timeVars, stepVars, hookVars>>

\* What awaiting the finished driver yields.
Outcome ==
    CASE state = "COMPLETED" -> <<"return", done>>
      [] state = "FAILED"    -> <<"raise", error>>
      [] state = "CANCELLED" -> <<"return", "None">>
      [] state = "STOPPED"   -> <<"return", "None">>
      [] OTHER               -> <<"pending", "None">>

wait ==
    /\ UNCHANGED notRunnerVars
    /\ IF running_task = "None"
       THEN /\ last_call' = Call("wait", "RuntimeError", "not running")
            /\ UNCHANGED <<running_task, pc, state, now, cancel_req, stop_req, done, error,
                           executor, orphans, starts, timeVars, stepVars, hookVars>>
       ELSE /\ pc = "ended"
            /\ running_task' = "None"
            /\ last_call' = Call("wait", Outcome[1], Outcome[2])
            /\ UNCHANGED <<pc, state, now, cancel_req, stop_req, done, error, executor,
                           orphans, starts, timeVars, stepVars, hookVars>>

stop ==
    /\ UNCHANGED notRunnerVars
    /\ stop_req' = TRUE
    /\ last_call' = Call("stop", "ok", "None")
    /\ UNCHANGED <<running_task, pc, state, now, cancel_req, done, error, executor,
                   orphans, starts, timeVars, stepVars, hookVars>>

\* A result() that returns normally on a stopped runner.
ResultOf_stopped_returns(st) ==
    CASE st = "COMPLETED" -> <<"return", done>>
      [] st = "FAILED"    -> <<"raise", error>>
      [] st = "STOPPED"   -> <<"return", "None">>
      [] st = "CANCELLED" -> <<"raise", "CancelledError">>

\* What result() yields in a terminal state.
ResultOf(st) ==
    CASE st = "COMPLETED" -> <<"return", done>>
      [] st = "FAILED"    -> <<"raise", error>>
      [] st = "STOPPED"   -> <<"raise", "StoppedError">>
      [] st = "CANCELLED" -> <<"raise", "CancelledError">>

result ==
    /\ UNCHANGED notRunnerVars
    /\ state \in Terminal
    /\ last_call' = Call("result", ResultOf(state)[1], ResultOf(state)[2])
    /\ UNCHANGED <<running_task, pc, state, now, cancel_req, stop_req, done, error,
                   executor, orphans, starts, timeVars, stepVars, hookVars>>

\* ------------------------------------------------------------------ queue
\* Threads calling put and get on one queue (producers and consumers).
Threads == 1..NThreads
\* timeout=None is written NoTimeout; the other timeouts are 0..MaxTimeout.
NoTimeout == -1
Timeouts == {NoTimeout} \cup (0..MaxTimeout)

Idle == [op |-> "idle", item |-> 0, remaining |-> 0]
Ret(t, op, out) == [thr |-> t, op |-> op, out |-> out]

\* A fullness test that lets one item too many in.
IsFull_late == maxsize > 0 /\ Len(msgq) > maxsize

\* queue.Queue: full when maxsize > 0 and qsize >= maxsize
IsFull == maxsize > 0 /\ Len(msgq) >= maxsize
IsEmpty == Len(msgq) = 0

\* A put that places the item at the head.
QPut_front(q, x) == <<x>> \o q

\* queue.Queue._put / _get on the deque: append right, pop left
QPut(q, x) == Append(q, x)
QHead(q) == Head(q)
QRest(q) == Tail(q)

\* A get that lets queue.Empty escape.
OnEmpty_raises(t) == Ret(t, "get", "Empty")

\* What the wrapper's get makes of queue.Empty: except queue.Empty: return None
OnEmpty(t) == Ret(t, "get", "None")

\* The item is placed; put returns None.
Enqueue(t, x) ==
    /\ msgq' = QPut(msgq, x)
    /\ put_log' = Append(put_log, x)
    /\ q_ret' = Ret(t, "put", "ok")
    /\ q_thr' = [q_thr EXCEPT ![t] = Idle]

\* The head is removed and returned.
Dequeue(t) ==
    /\ msgq' = QRest(msgq)
    /\ get_log' = Append(get_log, QHead(msgq))
    /\ q_ret' = Ret(t, "get", "item")
    /\ q_thr' = [q_thr EXCEPT ![t] = Idle]

\* Thread t calls put(message, block, timeout).
put(t, block, timeout) ==
    /\ UNCHANGED notQueueVars
    /\ q_thr[t].op = "idle"
    /\ next_item <= MaxPuts
    /\ next_item' = next_item + 1
    /\ IF ~IsFull
       THEN /\ Enqueue(t, next_item)
            /\ UNCHANGED <<maxsize, get_log>>
       ELSE IF ~block \/ timeout = 0
       THEN /\ q_ret' = Ret(t, "put", "Full")
            /\ UNCHANGED <<msgq, maxsize, q_thr, put_log, get_log>>
       ELSE /\ q_thr' = [q_thr EXCEPT ![t] =
                            [op |-> "put", item |-> next_item, remaining |-> timeout]]
            /\ UNCHANGED <<msgq, maxsize, q_ret, put_log, get_log>>

\* A put blocked on not_full finds room.
put_wakes(t) ==
    /\ UNCHANGED notQueueVars
    /\ q_thr[t].op = "put"
    /\ ~IsFull
    /\ Enqueue(t, q_thr[t].item)
    /\ UNCHANGED <<maxsize, next_item, get_log>>

\* A put blocked on not_full runs out of time with the queue still full.
put_times_out(t) ==
    /\ UNCHANGED notQueueVars
    /\ q_thr[t].op = "put"
    /\ q_thr[t].remaining = 0
    /\ IsFull
    /\ q_ret' = Ret(t, "put", "Full")
    /\ q_thr' = [q_thr EXCEPT ![t] = Idle]
    /\ UNCHANGED <<msgq, maxsize, next_item, put_log, get_log>>

\* Thread t calls get(block, timeout).
get(t, block, timeout) ==
    /\ UNCHANGED notQueueVars
    /\ q_thr[t].op = "idle"
    /\ IF ~IsEmpty
       THEN /\ Dequeue(t)
            /\ UNCHANGED <<maxsize, next_item, put_log>>
       ELSE IF ~block \/ timeout = 0
       THEN /\ q_ret' = OnEmpty(t)
            /\ UNCHANGED <<msgq, maxsize, q_thr, next_item, put_log, get_log>>
       ELSE /\ q_thr' = [q_thr EXCEPT ![t] =
                            [op |-> "get", item |-> 0, remaining |-> timeout]]
            /\ UNCHANGED <<msgq, maxsize, q_ret, next_item, put_log, get_log>>

\* A get blocked on not_empty finds an item.
get_wakes(t) ==
    /\ UNCHANGED notQueueVars
    /\ q_thr[t].op = "get"
    /\ ~IsEmpty
    /\ Dequeue(t)
    /\ UNCHANGED <<maxsize, next_item, put_log>>

\* A get blocked on not_empty runs out of time with the queue still empty.
get_times_out(t) ==
    /\ UNCHANGED notQueueVars
    /\ q_thr[t].op = "get"
    /\ q_thr[t].remaining = 0
    /\ IsEmpty
    /\ q_ret' = OnEmpty(t)
    /\ q_thr' = [q_thr EXCEPT ![t] = Idle]
    /\ UNCHANGED <<msgq, maxsize, next_item, put_log, get_log>>

\* One unit of time passes for every thread blocked with a timeout.
q_tick ==
    /\ UNCHANGED notQueueVars
    /\ \E t \in Threads : q_thr[t].op # "idle" /\ q_thr[t].remaining > 0
    /\ q_thr' = [t \in Threads |->
                    IF q_thr[t].op # "idle" /\ q_thr[t].remaining > 0
                    THEN [q_thr[t] EXCEPT !.remaining = @ - 1]
                    ELSE q_thr[t]]
    /\ UNCHANGED <<msgq, maxsize, q_ret, next_item, put_log, get_log>>

\* ------------------------------------------------------------------ queue variants
Packages == {"llmailbot", "jbmailbot"}

\* queue.Queue(maxsize=n) and the manager's Queue(maxsize=n): empty, capacity n
NewQueue(n) == [items |-> <<>>, maxsize |-> n]

\* MemoryQueue(maxsize) / MailQueue(maxsize): queue.Queue(maxsize=maxsize)
MemoryQueue_init(p, n) == NewQueue(n)

\* ManagedMemoryQueue(maxsize): get_manager().Queue(maxsize=maxsize);
\* ManagedMailQueue(maxsize): get_manager().Queue(), the argument is not used.
ManagedQueue_init(p, n) == IF p = "llmailbot" THEN NewQueue(n) ELSE NewQueue(0)

\* The arguments the wrapper's put accepts and hands to the queue: llmailbot
\* hands block and timeout on, jbmailbot's put(message) has neither and the
\* queue's defaults block=True, timeout=None apply.
PutArgs(p) ==
    IF p = "llmailbot"
    THEN BOOLEAN \X Timeouts
    ELSE {<<TRUE, NoTimeout>>}

IsFullQ(q) == q.maxsize > 0 /\ Len(q.items) >= q.maxsize

\* queue.Queue.put called by the only user of the queue: with room the item
\* is appended; without room the call raises Full (at once, or when the
\* timeout is used up), or never returns when it waits without a timeout.
PutQ(q, x, block, timeout) ==
    IF ~IsFullQ(q)
    THEN [q |-> [q EXCEPT !.items = QPut(@, x)], out |-> <<"ok">>]
    ELSE IF block /\ timeout = NoTimeout
    THEN [q |-> q, out |-> <<"blocks">>]
    ELSE [q |-> q, out |-> <<"Full">>]

\* The wrapper's get called by the only user of the queue: the head, or None
\* for queue.Empty, or no return when it waits without a timeout.
GetQ(q, block, timeout) ==
    IF q.items # <<>>
    THEN [q |-> [q EXCEPT !.items = QRest(@)], out |-> <<"item", QHead(q.items)>>]
    ELSE IF block /\ timeout = NoTimeout
    THEN [q |-> q, out |-> <<"blocks">>]
    ELSE [q |-> q, out |-> <<"None">>]

\* The caller is still able to make calls on both variants.
BothReturned == eq_ret.m # <<"blocks">> /\ eq_ret.g # <<"blocks">>

\* The same put on both variants.
both_put(block, timeout) ==
    /\ UNCHANGED notEquivVars
    /\ BothReturned
    /\ <<block, timeout>> \in PutArgs(pkg)
    /\ eq_next <= MaxPuts
    /\ eq_next' = eq_next + 1
    /\ mq' = PutQ(mq, eq_next, block, timeout).q
    /\ gq' = PutQ(gq, eq_next, block, timeout).q
    /\ eq_ret' = [m |-> PutQ(mq, eq_next, block, timeout).out,
                  g |-> PutQ(gq, eq_next, block, timeout).out]
    /\ UNCHANGED pkg

\* The same get on both variants.
both_get(block, timeout) ==
    /\ UNCHANGED notEquivVars
    /\ BothReturned
    /\ mq' = GetQ(mq, block, timeout).q
    /\ gq' = GetQ(gq, block, timeout).q
    /\ eq_ret' = [m |-> GetQ(mq, block, timeout).out,
                  g |-> GetQ(gq, block, timeout).out]
    /\ UNCHANGED <<pkg, eq_next>>

\* is_thread_safe() on both variants: True and True.
both_is_thread_safe ==
    /\ UNCHANGED notEquivVars
    /\ BothReturned
    /\ eq_ret' = [m |-> <<"True">>, g |-> <<"True">>]
    /\ UNCHANGED <<pkg, mq, gq, eq_next>>

\* ------------------------------------------------------------------ security rules
\* Text is a sequence of characters; " " stands for the whitespace characters.
Chars == {" ", "k", "x"}
Whitespace == {" "}

RECURSIVE SeqsUpTo(_, _)
\* All sequences over S of length at most n.
SeqsUpTo(S, n) ==
    IF n = 0 THEN {<<>>}
    ELSE LET shorter == SeqsUpTo(S, n - 1)
         IN  shorter \cup {Append(q, c) : q \in shorter, c \in S}

Bodies == SeqsUpTo(Chars, MaxBody)
\* make_security_filter adds the rule only for a non-empty key
Keys == SeqsUpTo(Chars, MaxKey) \ {<<>>}

RECURSIVE lstrip(_)
\* str.lstrip(): the text without its leading whitespace
lstrip(str) ==
    IF str = <<>> THEN str
    ELSE IF Head(str) \in Whitespace THEN lstrip(Tail(str))
    ELSE str

\* str.startswith(prefix)
startswith(str, prefix) ==
    /\ Len(prefix) <= Len(str)
    /\ SubSeq(str, 1, Len(prefix)) = prefix

\* str[n:]
slice_from(str, n) == SubSeq(str, n + 1, Len(str))

Result(action, reason, body) == [action |-> action, reason |-> reason, body |-> body]

\* A check that cuts the key off the stripped body.
SecretKeyRule_check_stripped(key, b) ==
    IF startswith(lstrip(b), key)
    THEN Result("ALLOW", "None", lstrip(slice_from(lstrip(b), Len(key))))
    ELSE Result("BLOCK", "secret key check failed", b)

\* SecretKeyRule.check: the test is made on the stripped body, the key's
\* length is cut off email.body itself.
SecretKeyRule_check(key, b) ==
    IF startswith(lstrip(b), key)
    THEN Result("ALLOW", "None", lstrip(slice_from(b, Len(key))))
    ELSE Result("BLOCK", "secret key check failed", b)

\* The rule checks the message (again).
secret_key_check ==
    /\ UNCHANGED notSecVars
    /\ Len(sk_log) < MaxRechecks
    /\ LET r == SecretKeyRule_check(secret_key, email.body)
       IN  /\ email' = [email EXCEPT !.body = r.body]
           /\ sk_log' = Append(sk_log, [before |-> email.body, action |-> r.action,
                                        reason |-> r.reason])
    /\ UNCHANGED <<secret_key, senderVars, clock, rateVars, keyedVars, filterVars>>

\* Addresses are local@domain; "*" as the local part of an entry is the wildcard.
LocalParts == {<<"a">>, <<"*">>, <<"*", "a">>}
DomainParts == {<<"d">>, <<"e">>}
Address(name, domain) == name \o <<"@">> \o domain
Addresses == {Address(l, d) : l \in LocalParts, d \in DomainParts}
FilterModes == {"ALLOWLIST", "DENYLIST"}

\* addr.split("@", 1): the text before and after the first "@"
split_at(addr) ==
    LET i == CHOOSE i \in 1..Len(addr) :
                 addr[i] = "@" /\ \A j \in 1..(i - 1) : addr[j] # "@"
    IN  <<SubSeq(addr, 1, i - 1), SubSeq(addr, i + 1, Len(addr))>>

\* FilterSenderRule.__init__: "*@domain" entries go to the domain set, the
\* other entries to the address set.
FilterSenderRule_init(addresses) ==
    [addresses |-> {addr \in addresses : split_at(addr)[1] # <<"*">>},
     domains |-> {split_at(addr)[2] : addr \in {a \in addresses : split_at(a)[1] = <<"*">>}}]

\* A membership test that looks at the address set only.
is_in_list_addresses_only(rule, addr) == addr \in rule.addresses

\* FilterSenderRule.is_in_list
is_in_list(rule, addr) ==
    split_at(addr)[2] \in rule.domains \/ addr \in rule.addresses

\* FilterSenderRule.check
FilterSenderRule_check(mode, rule, sender) ==
    IF mode = "DENYLIST" /\ is_in_list(rule, sender)
    THEN Result("BLOCK", "is in deny list", "None")
    ELSE IF mode = "ALLOWLIST" /\ ~is_in_list(rule, sender)
    THEN Result("BLOCK", "is not in allow list", "None")
    ELSE Result("ALLOW", "None", "None")

\* The rule checks a message from the given sender.
filter_sender_check(sender) ==
    /\ UNCHANGED notSecVars
    /\ email' = [email EXCEPT !.addr_from = sender]
    /\ fs_result' = FilterSenderRule_check(fs_mode, fs_rule, sender)
    /\ UNCHANGED <<secretVars, fs_entries, fs_mode, fs_rule, clock, rateVars, keyedVars,
                   filterVars>>

\* RateLimitRule.__init__ at time t: no check counted, window open until t + duration
RateLimitRule_init(t, duration) == [count |-> 0, limit_expiry |-> t + duration]

\* An expiry test that also ends the window at its last instant.
RateLimitRule_is_expired_at_end(rule, t) == t >= rule.limit_expiry

\* RateLimitRule._is_expired
RateLimitRule_is_expired(rule, t) == t > rule.limit_expiry

\* RateLimitRule._reset
RateLimitRule_reset(t, duration) == [count |-> 0, limit_expiry |-> t + duration]

\* A limit test that lets one check more through.
Exceeds_late(count, limit) == count > limit + 1

\* if self.count > self.limit
Exceeds(count, limit) == count > limit

\* RateLimitRule._increase_and_check at time t: the rule afterwards and the result
RateLimitRule_increase_and_check(rule, t, duration, limit) ==
    LET current == IF RateLimitRule_is_expired(rule, t)
                   THEN RateLimitRule_reset(t, duration)
                   ELSE rule
        counted == [current EXCEPT !.count = @ + 1]
    IN  [rule |-> counted,
         result |-> IF Exceeds(counted.count, limit)
                    THEN Result("BLOCK", "rate limit exceeded", "None")
                    ELSE Result("ALLOW", "None", "None")]

\* The global rule checks a message.
rate_limit_check ==
    /\ UNCHANGED notSecVars
    /\ Len(rl_log) < MaxChecks
    /\ LET r == RateLimitRule_increase_and_check(rl, clock, rl_duration, rl_limit)
       IN  /\ rl' = r.rule
           /\ rl_log' = Append(rl_log, [t |-> clock, action |-> r.result.action,
                                        count |-> r.rule.count,
                                        limit_expiry |-> r.rule.limit_expiry])
    /\ UNCHANGED <<email, secretVars, senderVars, clock, rl_limit, rl_duration, keyedVars,
                   filterVars>>

\* Time passes.
clock_tick ==
    /\ UNCHANGED notSecVars
    /\ clock < MaxClock
    /\ clock' = clock + 1
    /\ UNCHANGED <<email, secretVars, senderVars, rateVars, keyedVars, filterVars>>

\* The senders of messages: the addresses that are no wildcard.
Senders == {addr \in Addresses : split_at(addr)[1] # <<"*">>}
KeyedKinds == {"per-sender", "per-domain"}

\* RateLimitPerSenderRule.check / RateLimitPerDomainRule.check: the key of a sender
KeyOf(kind, sender) == IF kind = "per-sender" THEN sender ELSE split_at(sender)[2]

\* RateLimitPerSenderRule.__init__ at time t
PerKey_init(t, duration) == [rate_limits |-> <<>>, next_purge |-> t + duration]

\* The positions of the dict rate_limits that hold the key (at most one).
Slots(rate_limits, key) == {i \in 1..Len(rate_limits) : rate_limits[i].key = key}

\* The sequence without its i-th element: del self.rate_limits[key]
Without(seq, i) == SubSeq(seq, 1, i - 1) \o SubSeq(seq, i + 1, Len(seq))

\* The first part of _increase_and_check: an expired entry of the key is
\* reset in place, a key without an entry gets a new rule at the end.
PerKey_lookup(rate_limits, key, t, duration) ==
    IF Slots(rate_limits, key) # {}
    THEN LET i == CHOOSE i \in Slots(rate_limits, key) : TRUE
         IN  IF RateLimitRule_is_expired(rate_limits[i].rule, t)
             THEN [rate_limits EXCEPT ![i].rule = RateLimitRule_reset(t, duration)]
             ELSE rate_limits
    ELSE Append(rate_limits, [key |-> key, rule |-> RateLimitRule_init(t, duration)])

\* The positions _purge would delete.
Expired(rate_limits, t) ==
    {i \in 1..Len(rate_limits) : RateLimitRule_is_expired(rate_limits[i].rule, t)}

\* RateLimitPerSenderRule._purge: the loop runs over rate_limits.items() and
\* deletes from the dict it runs over. Without an expired entry it ends
\* normally; otherwise the first expired entry in dict order is deleted and
\* the next step of the iteration raises RuntimeError (dictionary changed
\* size during iteration), also when the deleted entry was the last one.
PerKey_purge(rate_limits, t) ==
    IF Expired(rate_limits, t) = {}
    THEN [rate_limits |-> rate_limits, raised |-> "None"]
    ELSE LET first == CHOOSE i \in Expired(rate_limits, t) :
                          \A j \in Expired(rate_limits, t) : i <= j
         IN  [rate_limits |-> Without(rate_limits, first), raised |-> "RuntimeError"]

\* RateLimitPerSenderRule._increase_and_check(key) at time t: the rule
\* afterwards and the result, or the error that escapes.
PerKey_increase_and_check(rule, key, t, duration, limit) ==
    LET looked == PerKey_lookup(rule.rate_limits, key, t, duration)
        due == t > rule.next_purge
        purged == IF due THEN PerKey_purge(looked, t)
                  ELSE [rate_limits |-> looked, raised |-> "None"]
    IN  IF purged.raised # "None"
        THEN [rule |-> [rate_limits |-> purged.rate_limits, next_purge |-> rule.next_purge],
              result |-> Result(purged.raised, "None", "None")]
        ELSE LET i == CHOOSE i \in Slots(purged.rate_limits, key) : TRUE
                 r == RateLimitRule_increase_and_check(purged.rate_limits[i].rule,
                                                       t, duration, limit)
             IN  [rule |-> [rate_limits |-> [purged.rate_limits EXCEPT ![i].rule = r.rule],
                            next_purge |-> IF due THEN t + duration ELSE rule.next_purge],
                  result |-> r.result]

\* The per-sender or per-domain rule checks a message from the given sender.
keyed_check(sender) ==
    /\ UNCHANGED notSecVars
    /\ Len(pk_log) < MaxChecks
    /\ LET key == KeyOf(pk_kind, sender)
           r == PerKey_increase_and_check(pk, key, clock, rl_duration, rl_limit)
       IN  /\ pk' = r.rule
           /\ pk_log' = Append(pk_log, [t |-> clock, key |-> key, action |-> r.result.action])
    /\ email' = [email EXCEPT !.addr_from = sender]
    /\ UNCHANGED <<secretVars, senderVars, clock, rateVars, pk_kind, filterVars>>

\* ------------------------------------------------------------------ security filter
\* make_security_filter: the rules a configuration can ask for, in the order
\* in which they are appended.
RuleOrder == <<"secret-key", "filter-sender", "rate-limit-global", "per-domain", "per-sender">>
RuleKinds == {RuleOrder[i] : i \in 1..Len(RuleOrder)}

\* The rule object of the given kind, built at time t from the configuration.
NewRule(kind, t) ==
    [kind |-> kind,
     state |-> CASE kind = "secret-key" -> secret_key
                 [] kind = "filter-sender" -> fs_rule
                 [] kind = "rate-limit-global" -> RateLimitRule_init(t, rl_duration)
                 [] OTHER -> PerKey_init(t, rl_duration)]

\* make_security_filter: one rule per configured kind, in RuleOrder
make_security_filter(configured, t) ==
    LET kinds == SelectSeq(RuleOrder, LAMBDA k : k \in configured)
    IN  [i \in 1..Len(kinds) |-> NewRule(kinds[i], t)]

\* rule.check(email) at time t: the rule afterwards, the message afterwards,
\* and the action returned or the error raised.
Rule_check(rule, em, t) ==
    CASE rule.kind = "secret-key" ->
            LET r == SecretKeyRule_check(rule.state, em.body)
            IN  [rule |-> rule, email |-> [em EXCEPT !.body = r.body], action |-> r.action]
      [] rule.kind = "filter-sender" ->
            [rule |-> rule, email |-> em,
             action |-> FilterSenderRule_check(fs_mode, rule.state, em.addr_from).action]
      [] rule.kind = "rate-limit-global" ->
            LET r == RateLimitRule_increase_and_check(rule.state, t, rl_duration, rl_limit)
            IN  [rule |-> [rule EXCEPT !.state = r.rule], email |-> em,
                 action |-> r.result.action]
      [] OTHER ->
            LET r == PerKey_increase_and_check(rule.state, KeyOf(rule.kind, em.addr_from),
                                               t, rl_duration, rl_limit)
            IN  [rule |-> [rule EXCEPT !.state = r.rule], email |-> em,
                 action |-> r.result.action]

\* A loop that goes on after a BLOCK.
Blocks_never(action) == FALSE

\* if result == Action.BLOCK
Blocks(action) == action = "BLOCK"

RECURSIVE SecurityFilter_apply_all(_, _, _, _, _)
\* A filter that checks every rule and then answers None if one of them blocked.
SecurityFilter_apply_all(rs, em, t, i, evaluated) ==
    IF i > Len(rs)
    THEN [rules |-> rs, email |-> em, evaluated |-> evaluated,
          out |-> IF \E k \in 1..Len(evaluated) : evaluated[k].action = "BLOCK"
                  THEN "None" ELSE "email"]
    ELSE LET r == Rule_check(rs[i], em, t)
             after == [rs EXCEPT ![i] = r.rule]
             seen == Append(evaluated, [rule |-> i, action |-> r.action])
         IN  IF r.action \notin {"ALLOW", "BLOCK"}
             THEN [rules |-> after, email |-> r.email, evaluated |-> seen, out |-> r.action]
             ELSE SecurityFilter_apply_all(after, r.email, t, i + 1, seen)

RECURSIVE SecurityFilter_apply(_, _, _, _, _)
\* SecurityFilter.apply from rule i on: the rules and the message afterwards,
\* the rules evaluated with their actions, and what apply returns: the
\* message ("email"), None, or an error a rule raised.
SecurityFilter_apply(rs, em, t, i, evaluated) ==
    IF i > Len(rs)
    THEN [rules |-> rs, email |-> em, evaluated |-> evaluated, out |-> "email"]
    ELSE LET r == Rule_check(rs[i], em, t)
             after == [rs EXCEPT ![i] = r.rule]
             seen == Append(evaluated, [rule |-> i, action |-> r.action])
         IN  IF r.action \notin {"ALLOW", "BLOCK"}
             THEN [rules |-> after, email |-> r.email, evaluated |-> seen, out |-> r.action]
             ELSE IF Blocks(r.action)
             THEN [rules |-> after, email |-> r.email, evaluated |-> seen, out |-> "None"]
             ELSE SecurityFilter_apply(after, r.email, t, i + 1, seen)

\* The messages the filter is given.
Mails == {[addr_from |-> Address(<<"a">>, d), body |-> b] :
              d \in DomainParts, b \in {<<"k", " ", "x">>, <<"x">>}}

\* The filter is applied to a message.
apply(em) ==
    /\ UNCHANGED notSecVars
    /\ applies < MaxApplies
    /\ applies' = applies + 1
    /\ LET r == SecurityFilter_apply(rules, em, clock, 1, <<>>)
       IN  /\ rules' = r.rules
           /\ email' = r.email
           /\ applied' = [evaluated |-> r.evaluated, out |-> r.out]
    /\ UNCHANGED <<secretVars, senderVars, clock, rateVars, keyedVars>>

\* ------------------------------------------------------------------ mail pipeline
MsgIds == 1..NMsgs
FetchModes == {"MARK_READ", "DELETE"}
PipeSenders == {Address(<<"a">>, d) : d \in DomainParts}
\* Bodies: one that starts with the secret key "k" and one that does not.
PipeBodies == {<<"k", " ", "x">>, <<"x">>}

\* raw_email.parsed(): the message the security filter is given
parsed(msg) == [addr_from |-> msg.from, body |-> msg.body]

\* The first n elements of a sequence.
Take(seq, n) == SubSeq(seq, 1, IF n < Len(seq) THEN n ELSE Len(seq))

\* The messages mailbox.fetch gets: those the fetcher's query selects, the
\* unseen ones (MarkReadFetcher) or all of them (DeleteFetcher), in the order
\* of the mailbox, and no more than limit of them.
Batch(mode, box, limit) ==
    Take(SelectSeq([m \in MsgIds |-> m],
                   LAMBDA m : box[m].there /\ (mode = "DELETE" \/ ~box[m].seen)),
         limit)

\* A fetch that leaves the flags of the server alone.
Fetched_unmarked(mode, box, batch) == box

\* mailbox.fetch(..., bulk, mark_seen=True) marks what it fetches as seen on
\* the server when it fetches it, before the first message is yielded;
\* mark_seen=False leaves the flags alone.
Fetched(mode, box, batch) ==
    [m \in MsgIds |->
        IF mode = "MARK_READ" /\ (\E i \in 1..Len(batch) : batch[i] = m)
        THEN [box[m] EXCEPT !.seen = TRUE] ELSE box[m]]

\* llmailbot fetchers: MarkReadFetcher yields whatever mailbox.fetch yields,
\* DeleteFetcher skips a message whose uid is None.
llmailbot_skips(mode, msg) == mode = "DELETE" /\ ~msg.uid

\* jbmailbot fetchers: both skip a message whose uid is None.
jbmailbot_skips(mode, msg) == ~msg.uid

\* if action == Action.ALLOW, where action is what SecurityFilter.apply
\* returned: the message or None.
action_is_ALLOW(ret) == ret = "ALLOW"

\* What the filter decided about a message, from what apply returned.
Verdict(out) ==
    CASE out = "email" -> "ALLOW"
      [] out = "None"  -> "BLOCK"
      [] OTHER         -> "raised"

\* llmailbot FetchMailTask.run, loop body for message m: parse, apply the
\* filter if there is one, put the raw message if the action is ALLOW.
\* r is what self.sec_filter.apply(email) yields for the parsed message.
llmailbot_run_body(st, m, r) ==
    IF st.filter = <<>>
    THEN st
    ELSE LET s1 == [st EXCEPT !.verdict[m] = Verdict(r.out)]
         IN  IF r.out \notin {"email", "None"}
             THEN [s1 EXCEPT !.out = r.out]
             ELSE IF action_is_ALLOW(r.out)
             THEN [s1 EXCEPT !.incoming = Append(@, m), !.put = Append(@, m)]
             ELSE s1

\* jbmailbot FetchMailTask.run, loop body for message m: self.mailq.put(message)
jbmailbot_run_body(st, m, r) ==
    [st EXCEPT !.incoming = Append(@, m), !.put = Append(@, m)]

\* DeleteFetcher: yield message, then mailbox.delete(message.uid): the message
\* is handed to the loop body before it is deleted.
DeleteAfterYield == TRUE

\* One round of the generator fetch_messages and of the loop in
\* FetchMailTask.run that consumes it, for message m.  bad holds the message
\* whose mailbox.delete fails and the message at which the loop body raises
\* before the filter is asked (its headers cannot be parsed), 0 when there is
\* none; checked[m] is what the filter yields for message m.
fetch_one(p, mode, bad, checked, st, m) ==
    LET skip == IF p = "llmailbot" THEN llmailbot_skips(mode, st.inbox[m])
                                   ELSE jbmailbot_skips(mode, st.inbox[m])
        s1 == IF p = "llmailbot" THEN llmailbot_run_body(st, m, checked[m])
                                 ELSE jbmailbot_run_body(st, m, checked[m])
    IN  IF skip
        THEN st
        ELSE IF m = bad.msg
        THEN [st EXCEPT !.out = "MessageError"]
        ELSE IF s1.out # "None"
        THEN s1
        ELSE IF mode = "DELETE" /\ m = bad.delete
        THEN IF DeleteAfterYield THEN [s1 EXCEPT !.out = "MailboxError"]
                                 ELSE [st EXCEPT !.out = "MailboxError"]
        ELSE IF mode = "DELETE"
        THEN [s1 EXCEPT !.inbox[m].there = FALSE]
        ELSE s1

RECURSIVE FetchMailTask_run(_, _, _, _, _, _, _)
\* FetchMailTask.run over the batch from position i on, until the batch is
\* exhausted or something raises.
FetchMailTask_run(p, mode, batch, bad, checked, i, st) ==
    IF i > Len(batch) \/ st.out # "None"
    THEN st
    ELSE FetchMailTask_run(p, mode, batch, bad, checked, i + 1,
                           fetch_one(p, mode, bad, checked, st, batch[i]))

\* Whether the task's exception hook re-raises: llmailbot FetchMailTask
\* .handle_exception logs and raises exc, jbmailbot FetchMailTask
\* .on_task_exception only logs.
handle_exception_reraises(p) == p = "llmailbot"

NoFetch == [batch |-> <<>>, verdict |-> [m \in MsgIds |-> "none"], put |-> <<>>, out |-> "none"]

\* One step of the fetch task.  connect_ok: connect_mailbox succeeds.  The
\* rules a pipeline filter is made of keep no state, so what apply yields for
\* a message does not depend on the messages checked before it.
fetch_step(connect_ok, bad_delete, bad_msg) ==
    /\ UNCHANGED notPipeVars
    /\ fetch_state = "RUNNING"
    /\ fetches < MaxFetches
    /\ on_fetch = "MARK_READ" \/ ~connect_ok => bad_delete = 0
    \* the fault tried in a step of the delete fetcher is the failing delete
    /\ on_fetch = "DELETE" \/ ~connect_ok => bad_msg = 0
    /\ LET batch == IF connect_ok THEN Batch(on_fetch, inbox, fetch_max) ELSE <<>>
           bad == [delete |-> bad_delete, msg |-> bad_msg]
           st0 == [inbox |-> IF connect_ok THEN Fetched(on_fetch, inbox, batch) ELSE inbox,
                   filter |-> sec_filter, incoming |-> incoming,
                   verdict |-> [m \in MsgIds |-> "none"], put |-> <<>>,
                   out |-> IF connect_ok THEN "None" ELSE "ConnectionError"]
           checked == [m \in MsgIds |->
                          SecurityFilter_apply(sec_filter, parsed(inbox[m]), clock, 1, <<>>)]
           st == FetchMailTask_run(fetch_pkg, on_fetch, batch, bad, checked, 1, st0)
       IN  pipe' = [pipe EXCEPT
                      !.fetches = @ + 1,
                      !.fetched_times = [m \in MsgIds |->
                                            IF \E i \in 1..Len(batch) : batch[i] = m
                                            THEN @[m] + 1 ELSE @[m]],
                      !.inbox = st.inbox,
                      !.incoming = st.incoming,
                      !.received = @ \o st.put,
                      !.last_fetch = [batch |-> batch, verdict |-> st.verdict,
                                      put |-> st.put, out |-> st.out],
                      !.fetch_state = IF st.out # "None" /\ handle_exception_reraises(fetch_pkg)
                                      THEN "FAILED" ELSE "RUNNING"]

\* The fetch runner is started again after it failed.
restart_fetch ==
    /\ UNCHANGED notPipeVars
    /\ fetch_state = "FAILED"
    /\ pipe' = [pipe EXCEPT !.fetch_state = "RUNNING"]

\* A reply that names no original.
Reply_to_nobody(m) == [reply_to |-> 0]

\* MailBot.reply: the reply built from message m
Reply(m) == [reply_to |-> m]

ReplyStep(m, n, out) == [msg |-> m, attempts |-> n, out |-> out, ret |-> "None"]
NoReply == [msg |-> 0, attempts |-> 0, out |-> "none", ret |-> "none"]

\* RunBotTask.run, first part: message = recvq.get(block=True, timeout=...);
\* on None the step returns.
reply_get ==
    /\ UNCHANGED notPipeVars
    /\ cur = 0
    /\ IF incoming = <<>>
       THEN pipe' = [pipe EXCEPT !.last_reply = ReplyStep(0, 0, "empty"), !.attempts = 0]
       ELSE pipe' = [pipe EXCEPT !.cur = Head(incoming),
                                 !.incoming = Tail(incoming),
                                 !.taken = Append(@, Head(incoming)),
                                 !.attempts = 0]

\* for retry_num in range(self.retries + 1): pass n is the last one
LastPass(n, r) == n = r + 1

\* A put that places the reply at the head of the outgoing queue.
SendqPut_front(q, x) == <<x>> \o q

\* sendq.put(reply, block=True, timeout=...) on a queue that has room
SendqPut(q, x) == Append(q, x)

\* RunBotTask.run, one pass through the retry loop for the message taken:
\* reply = await self.mailbot.reply(message), then sendq.put with a timeout,
\* then break; an exception from either is logged and the loop goes on.
\* composed: compose_reply returns.  The put raises queue.Full when the
\* outgoing queue stays full for the timeout.
reply_attempt(composed) ==
    /\ UNCHANGED notPipeVars
    /\ cur # 0
    /\ LET n == attempts + 1
           full == out_maxsize > 0 /\ Len(outgoing) >= out_maxsize
       IN  IF composed /\ ~full
           THEN pipe' = [pipe EXCEPT !.outgoing = SendqPut(@, Reply(cur)),
                                     !.replied = Append(@, cur),
                                     !.cur = 0,
                                     !.attempts = 0,
                                     !.last_reply = ReplyStep(cur, n, "replied")]
           ELSE IF LastPass(n, retries)
           THEN pipe' = [pipe EXCEPT !.cur = 0,
                                     !.attempts = 0,
                                     !.last_reply = ReplyStep(cur, n,
                                                       IF composed THEN "dropped, put failed"
                                                       ELSE "dropped")]
           ELSE pipe' = [pipe EXCEPT !.attempts = n,
                                     !.last_reply = ReplyStep(cur, n,
                                                       IF composed THEN "put failed"
                                                       ELSE "compose failed")]

\* A send task that puts the message back when the sender raised.
SendqAfter_requeue(q, sent_ok) == IF sent_ok THEN Tail(q) ELSE Append(Tail(q), Head(q))

\* The outgoing queue after a step of SendMailTask.run that took its head:
\* nothing in run or in the exception hook puts the message back.
SendqAfter(q, sent_ok) == Tail(q)

\* Whether the exception hook of the send task re-raises.  jbmailbot
\* SendMailTask.on_task_exception only logs.  The llmailbot runner calls
\* handle_exception, which llmailbot SendMailTask does not override: the
\* default hook re-schedules the next step.
send_hook_reraises(p) == FALSE

\* SendMailTask.run: email = self.mailq.get(block=True, timeout=5); if there
\* is one it is handed to the sender once.  sent_ok: connecting and sending
\* succeed; when they raise, the exception goes to the hook of the task.
send_step(sent_ok) ==
    /\ UNCHANGED notPipeVars
    /\ send_state = "RUNNING"
    /\ outgoing # <<>>
    /\ pipe' = [pipe EXCEPT !.outgoing = SendqAfter(@, sent_ok),
                            !.handed = Append(@, Head(outgoing).reply_to),
                            !.last_send = IF sent_ok THEN "sent" ELSE "raised",
                            !.send_state = IF ~sent_ok /\ send_hook_reraises(fetch_pkg)
                                           THEN "FAILED" ELSE "RUNNING"]

\* ------------------------------------------------------------------ reply message
\* Subjects: with and without a leading "Re: " in several spellings.
Re == <<"R", "e", ":", " ">>
SubjectPrefixes == {<<>>, Re, <<"r", "E", ":", " ">>, <<"R", "E", ":", " ">>, <<"R", "e", ":">>}
SubjectTexts == {<<>>, <<"h", "i">>, <<"h", "R", "e", ":", " ">>}
Subjects == {p \o t : p \in SubjectPrefixes, t \in SubjectTexts}
MessageIds == {"None", "<1@x>", "<2@x>"}
BotAddresses == {Address(<<"a">>, <<"e">>)}
ReplyBodies == {<<"x">>, <<"k">>}

\* SimpleEmail: the fields a reply is built from and with
SimpleEmail(addr_from, addr_to, subject, body, in_reply_to, references) ==
    [addr_from |-> addr_from, addr_to |-> addr_to, subject |-> subject, body |-> body,
     in_reply_to |-> in_reply_to, references |-> references]

\* llmailbot SimpleEmail.reply: subject=f"Re: {email.subject}"
llmailbot_reply(em, addr_from, body) ==
    SimpleEmail(addr_from, <<em.addr_from>>, Re \o em.subject, body, em.message_id,
                em.references)

\* jbmailbot SimpleEmail.reply: subject=email.subject
jbmailbot_reply(em, addr_from, body) ==
    SimpleEmail(addr_from, <<em.addr_from>>, em.subject, body, em.message_id, em.references)

NoReplyMsg == SimpleEmail(<<>>, <<>>, <<>>, <<>>, "None", "None")

\* SimpleEmail.reply(email, addr_from, body) is called for the original.
build_reply(body) ==
    /\ UNCHANGED notReplyVars
    /\ rep' = [rep EXCEPT !.reply_msg = IF reply_pkg = "llmailbot"
                                        THEN llmailbot_reply(original, send_from, body)
                                        ELSE jbmailbot_reply(original, send_from, body)]

\* ------------------------------------------------------------------ application assembly
WorkerTypes == {"thread", "process"}
QueueTypes == {"Memory", "Redis"}
Stages == {"fetch", "reply", "send"}

\* DEFAULT_QUEUE_SETTINGS[which][worker_type]: MemoryQueueSettings for a
\* thread pool, RedisQueueSettings for a process pool, for both queues.
DEFAULT_QUEUE_SETTINGS(which, worker_type) ==
    IF worker_type = "thread" THEN "Memory" ELSE "Redis"

\* LLMailBotConfig.set_queue_type_none_to_default: a queue left as None gets
\* the default for the worker type; a queue that is given is kept.
set_queue_type_none_to_default(cfg) ==
    [cfg EXCEPT
        !.receive_queue = IF @ = "None"
                          THEN DEFAULT_QUEUE_SETTINGS("receive", cfg.worker_type) ELSE @,
        !.send_queue = IF @ = "None"
                       THEN DEFAULT_QUEUE_SETTINGS("send", cfg.worker_type) ELSE @]

\* The capability predicates of a queue of the given kind: the in-process
\* queue (Memory) and the cross-process one.
is_thread_safe(kind) == TRUE
is_process_safe(kind) == kind # "Memory"

RawConfigs ==
    [models : 0..1, worker_type : WorkerTypes, receive_queue : QueueTypes \cup {"None"},
     send_queue : QueueTypes \cup {"None"}]

NewRunner == [state |-> "NEW", error |-> "None", starts |-> 0]

\* LLMailBotConfig(): the settings are loaded and the validators run.
load_config(raw) ==
    /\ UNCHANGED notAppVars
    /\ app_pc = "new"
    /\ app' = [app EXCEPT !.config = set_queue_type_none_to_default(raw),
                          !.app_pc = "configured"]

\* run_app up to the gather: ConfigError when no model is configured, else
\* the executor, the two queues, the three tasks, and runner().start() for
\* each of them.
run_app ==
    /\ UNCHANGED notAppVars
    /\ app_pc = "configured"
    /\ IF config.models = 0
       THEN app' = [app EXCEPT !.app_pc = "raised", !.app_exc = "ConfigError"]
       ELSE app' = [app EXCEPT
                      !.app_pc = "gathering",
                      !.app_executor = config.worker_type,
                      !.app_queues = [receive |-> config.receive_queue,
                                      send |-> config.send_queue],
                      !.runners = [s \in Stages |->
                                      [state |-> "RUNNING", error |-> "None",
                                       starts |-> runners[s].starts + 1]]]

\* A gather that keeps the exception of the child that failed last.
GatherException_last(old, e) == e

\* asyncio.gather without return_exceptions: the first exception a child
\* raises is set on the gathering future; later ones are not.
GatherException(old, e) == IF old = "None" THEN e ELSE old

\* The runner of stage s reaches FAILED with error e: its result() raises e
\* into the gather.
runner_fails(s, e) ==
    /\ UNCHANGED notAppVars
    /\ runners[s].state = "RUNNING"
    /\ app' = [app EXCEPT !.runners[s].state = "FAILED",
                          !.runners[s].error = e,
                          !.gather_exc = GatherException(@, e),
                          !.first_error = IF @ = "None" THEN e ELSE @]

\* The runner of stage s reaches COMPLETED: its result() returns.
runner_completes(s) ==
    /\ UNCHANGED notAppVars
    /\ runners[s].state = "RUNNING"
    /\ app' = [app EXCEPT !.runners[s].state = "COMPLETED"]

\* await asyncio.gather(*awaitables) ends: it raises the exception set on
\* the gathering future, or returns when every child has returned.
gather_ends ==
    /\ UNCHANGED notAppVars
    /\ app_pc = "gathering"
    /\ IF gather_exc # "None"
       THEN app' = [app EXCEPT !.app_pc = "raised", !.app_exc = gather_exc]
       ELSE /\ \A s \in Stages : runners[s].state = "COMPLETED"
            /\ app' = [app EXCEPT !.app_pc = "returned"]

\* ------------------------------------------------------------------ two runners of one task
\* The handles runner1 = task.runner() and runner2 = task.runner().
Handles == {1, 2}

\* A task that hands out the one runner it keeps.
RunnerOf_shared(h) == 1

\* task.runner(): every call constructs a new TaskRunner around the task, with
\* a running_task of its own.
RunnerOf(h) == h

\* TaskRunner.__init__
NewDuoRunner ==
    [running_task |-> FALSE, pc |-> "none", state |-> "NEW", cancel_req |-> FALSE,
     stop_req |-> FALSE, done |-> "None", error |-> "None", steps |-> 0, starts |-> 0]

\* What the holder of handle h sees of its runner.
View(h) == duo.rn[RunnerOf(h)]

\* runner.start(): RuntimeError when running_task is set, else a new driver.
duo_start(h) ==
    /\ UNCHANGED notDuoVars
    /\ ~View(h).running_task
    /\ View(h).starts < MaxStarts
    /\ duo' = [duo EXCEPT !.rn[RunnerOf(h)] =
                  [@ EXCEPT !.running_task = TRUE, !.pc = "scheduled", !.state = "RUNNING",
                            !.cancel_req = FALSE, !.stop_req = FALSE, !.done = "None",
                            !.error = "None", !.starts = @ + 1]]

\* One pass of run_forever of the runner behind h: self.task.run() is called
\* on the shared task, which counts its runs; it returns None, returns
\* TaskDone(v), or raises e, which the default on_task_exception re-raises.
duo_step(h, outcome) ==
    /\ UNCHANGED notDuoVars
    /\ View(h).pc \in {"scheduled", "step"}
    /\ ~View(h).stop_req
    /\ View(h).steps < MaxSteps
    /\ duo' = [duo EXCEPT
                  !.run_count = @ + 1,
                  !.rn[RunnerOf(h)] =
                      CASE outcome = "None" -> [@ EXCEPT !.pc = "step", !.steps = @ + 1]
                        [] outcome \in Values ->
                             [@ EXCEPT !.pc = "ended", !.state = "COMPLETED",
                                       !.done = outcome, !.steps = @ + 1]
                        [] OTHER ->
                             [@ EXCEPT !.pc = "ended", !.state = "FAILED",
                                       !.error = outcome, !.steps = @ + 1]]

\* runner.cancel(): RuntimeError when running_task is not set, else
\* running_task.cancel().
duo_cancel(h) ==
    /\ UNCHANGED notDuoVars
    /\ View(h).running_task
    /\ View(h).pc # "ended"
    /\ ~View(h).cancel_req
    /\ duo' = [duo EXCEPT !.rn[RunnerOf(h)].cancel_req = TRUE]

\* The cancellation reaches the driver behind h at its suspension point.
duo_deliver_cancel(h) ==
    /\ UNCHANGED notDuoVars
    /\ View(h).cancel_req
    /\ View(h).pc \in {"scheduled", "step"}
    /\ duo' = [duo EXCEPT !.rn[RunnerOf(h)] =
                  [@ EXCEPT !.pc = "ended", !.state = "CANCELLED", !.cancel_req = FALSE]]

\* runner.stop(): the next step of this runner is suppressed.
duo_stop(h) ==
    /\ UNCHANGED notDuoVars
    /\ View(h).pc \in {"scheduled", "step"}
    /\ ~View(h).stop_req
    /\ duo' = [duo EXCEPT !.rn[RunnerOf(h)].stop_req = TRUE]

\* The driver behind h observes the stop request between two steps.
duo_observe_stop(h) ==
    /\ UNCHANGED notDuoVars
    /\ View(h).stop_req
    /\ View(h).pc \in {"scheduled", "step"}
    /\ duo' = [duo EXCEPT !.rn[RunnerOf(h)] = [@ EXCEPT !.pc = "ended", !.state = "STOPPED"]]

\* await runner.wait() returns or raises once the driver has ended and
\* resets running_task.
duo_wait(h) ==
    /\ UNCHANGED notDuoVars
    /\ View(h).running_task
    /\ View(h).pc = "ended"
    /\ duo' = [duo EXCEPT !.rn[RunnerOf(h)].running_task = FALSE]

\* ------------------------------------------------------------------ concurrent checks of one rule
\* The worker threads that call check() on the same RateLimitRule.
RaceThreads == Threads

RaceIdle == [pc |-> "idle", now |-> 0, tmp |-> 0]

\* check(email) is entered on thread t: now = datetime.datetime.now().  The
\* rule has no lock: between any two of the following steps of a thread the
\* steps of another thread may run.
race_call(t) ==
    /\ UNCHANGED notRaceVars
    /\ race.thr[t].pc = "idle"
    /\ race.calls <= race.limit
    /\ race' = [race EXCEPT !.thr[t] = [pc |-> "test", now |-> race.time, tmp |-> 0],
                            !.calls = @ + 1]

\* if self._is_expired(now)
race_test(t) ==
    /\ UNCHANGED notRaceVars
    /\ race.thr[t].pc = "test"
    /\ race' = [race EXCEPT !.thr[t].pc =
                   IF RateLimitRule_is_expired(race.rule, race.thr[t].now)
                   THEN "reset" ELSE "load"]

\* self._reset(now)
race_reset(t) ==
    /\ UNCHANGED notRaceVars
    /\ race.thr[t].pc = "reset"
    /\ race' = [race EXCEPT !.rule = RateLimitRule_reset(race.thr[t].now, race.duration),
                            !.thr[t].pc = "load"]

\* self.count += 1, first half: the value of self.count is read
race_load(t) ==
    /\ UNCHANGED notRaceVars
    /\ race.thr[t].pc = "load"
    /\ race' = [race EXCEPT !.thr[t].tmp = race.rule.count, !.thr[t].pc = "store"]

\* self.count += 1, second half: the value read, plus one, is written
race_store(t) ==
    /\ UNCHANGED notRaceVars
    /\ race.thr[t].pc = "store"
    /\ race' = [race EXCEPT !.rule.count = race.thr[t].tmp + 1, !.thr[t].pc = "compare"]

\* if self.count > self.limit: BLOCK, else ALLOW; the check returns.
race_return(t) ==
    /\ UNCHANGED notRaceVars
    /\ race.thr[t].pc = "compare"
    /\ race' = [race EXCEPT
                  !.thr[t] = RaceIdle,
                  !.log = Append(@, [thr |-> t,
                                     action |-> IF Exceeds(race.rule.count, race.limit)
                                                THEN "BLOCK" ELSE "ALLOW",
                                     window |-> race.rule.limit_expiry])]

\* Time passes.
race_tick ==
    /\ UNCHANGED notRaceVars
    /\ race.time < MaxWindow
    /\ race' = [race EXCEPT !.time = @ + 1]

\* ------------------------------------------------------------------ stopping a stage runner
\* The runner of one stage (jbmailbot FetchMailTask, RunBotTask or
\* SendMailTask) beside an input queue that stays empty or not and an output
\* queue that stays full or not.  timeout is the queue timeout of the stage in
\* time units; pc is the position of the runner: idle between two steps, or
\* inside a step at get, reply, put, send or fetch-put.
NewHalt(stage, in_empty, out_full, timeout, r) ==
    [stage |-> stage, in_empty |-> in_empty, out_full |-> out_full, timeout |-> timeout,
     retries |-> r, state |-> "RUNNING", stop_req |-> FALSE, pc |-> "idle", waited |-> 0,
     attempts |-> 0, todo |-> 0]

\* runner.stop()
halt_stop ==
    /\ UNCHANGED notHaltVars
    /\ halt.state = "RUNNING"
    /\ ~halt.stop_req
    /\ halt' = [halt EXCEPT !.stop_req = TRUE]

\* Between two steps the runner observes the stop request and ends.
halt_observe_stop ==
    /\ UNCHANGED notHaltVars
    /\ halt.pc = "idle" /\ halt.stop_req /\ halt.state = "RUNNING"
    /\ halt' = [halt EXCEPT !.state = "STOPPED", !.pc = "ended"]

\* The next step begins.  FetchMailTask.run: the fetcher yields n messages (a
\* step without messages returns at once and changes nothing).
\* RunBotTask.run and SendMailTask.run: get(block=True, timeout=...) is called.
halt_begin_step(n) ==
    /\ UNCHANGED notHaltVars
    /\ halt.pc = "idle" /\ ~halt.stop_req /\ halt.state = "RUNNING"
    /\ IF halt.stage = "fetch"
       THEN halt' = [halt EXCEPT !.pc = "fetch-put", !.todo = n]
       ELSE /\ n = 1
            /\ halt' = [halt EXCEPT !.pc = "get", !.waited = 0]

\* FetchMailTask.run: self.mailq.put(message), a put without a timeout: it
\* returns when the queue has room and waits as long as it has none.
halt_fetch_put ==
    /\ UNCHANGED notHaltVars
    /\ halt.pc = "fetch-put"
    /\ ~halt.out_full
    /\ halt' = [halt EXCEPT !.todo = @ - 1, !.pc = IF halt.todo = 1 THEN "idle" ELSE @]

\* A blocking get or put with a timeout waits one more time unit.
halt_wait ==
    /\ UNCHANGED notHaltVars
    /\ \/ halt.pc = "get" /\ halt.in_empty
       \/ halt.pc = "put" /\ halt.out_full
    /\ halt.waited < halt.timeout
    /\ halt' = [halt EXCEPT !.waited = @ + 1]

\* get returns a message: the reply stage goes on to reply, the send stage
\* to send.
halt_get_returns ==
    /\ UNCHANGED notHaltVars
    /\ halt.pc = "get" /\ ~halt.in_empty
    /\ halt' = [halt EXCEPT !.pc = IF halt.stage = "reply" THEN "reply" ELSE "send",
                            !.attempts = 0]

\* The timeout of get has passed: get returns None and the step returns.
halt_get_times_out ==
    /\ UNCHANGED notHaltVars
    /\ halt.pc = "get" /\ halt.in_empty /\ halt.waited = halt.timeout
    /\ halt' = [halt EXCEPT !.pc = "idle", !.waited = 0]

\* RunBotTask.run: reply = await self.mailbot.reply(message), then
\* sendq.put(reply, block=True, timeout=self.queue_timeout) is called.
halt_reply ==
    /\ UNCHANGED notHaltVars
    /\ halt.pc = "reply"
    /\ halt' = [halt EXCEPT !.pc = "put", !.waited = 0]

\* The put returns: break, the step returns.
halt_put_returns ==
    /\ UNCHANGED notHaltVars
    /\ halt.pc = "put" /\ ~halt.out_full
    /\ halt' = [halt EXCEPT !.pc = "idle", !.waited = 0, !.attempts = 0]

\* The timeout of put has passed: queue.Full is raised and logged; the retry
\* loop makes its next pass, or the step returns after the last one.
halt_put_times_out ==
    /\ UNCHANGED notHaltVars
    /\ halt.pc = "put" /\ halt.out_full /\ halt.waited = halt.timeout
    /\ IF LastPass(halt.attempts + 1, halt.retries)
       THEN halt' = [halt EXCEPT !.pc = "idle", !.waited = 0, !.attempts = 0]
       ELSE halt' = [halt EXCEPT !.pc = "reply", !.waited = 0, !.attempts = @ + 1]

\* SendMailTask.run: self.sender.send(email) returns or raises; the step ends.
halt_send ==
    /\ UNCHANGED notHaltVars
    /\ halt.pc = "send"
    /\ halt' = [halt EXCEPT !.pc = "idle"]

\* What the runner, its worker thread and the clock do by themselves.
HaltProgress ==
    \/ halt_observe_stop
    \/ \E n \in 1..NMsgs : halt_begin_step(n)
    \/ halt_fetch_put
    \/ halt_wait
    \/ halt_get_returns
    \/ halt_get_times_out
    \/ halt_reply
    \/ halt_put_returns
    \/ halt_put_times_out
    \/ halt_send

\* ------------------------------------------------------------------ specification
RunnerInit ==
    /\ running_task = "None"
    /\ pc = "none"
    /\ state = "NEW"
    /\ interval = 0
    /\ start_time = 0
    /\ wake_at = 0
    /\ now = 0
    /\ cancel_req = FALSE
    /\ stop_req = FALSE
    /\ done = "None"
    /\ error = "None"
    /\ orphans = 0
    /\ starts = 0
    /\ steps_begun = 0
    /\ steps_after_stop = 0
    /\ in_progress = 0
    /\ prev_end = 0
    /\ n_raised = 0
    /\ last_raised = "None"
    /\ n_hook = 0
    /\ last_hook_arg = "None"
    /\ n_on_cancelled = 0
    /\ n_on_stopped = 0
    /\ last_call = Call("none", "ok", "None")

QueueInit ==
    /\ msgq = <<>>
    /\ q_thr = [t \in Threads |-> Idle]
    /\ q_ret = Ret(0, "none", "ok")
    /\ next_item = 1
    /\ put_log = <<>>
    /\ get_log = <<>>

\* The pair of queue variants before it is used.
EquivInit ==
    /\ pkg = "llmailbot"
    /\ mq = NewQueue(0)
    /\ gq = NewQueue(0)
    /\ eq_ret = [m |-> <<"new">>, g |-> <<"new">>]
    /\ eq_next = 1

\* The security rules before they are used.
SecretInit ==
    /\ secret_key = <<"k">>
    /\ sk_log = <<>>

SenderInit ==
    /\ fs_entries = {}
    /\ fs_mode = "ALLOWLIST"
    /\ fs_rule = FilterSenderRule_init({})
    /\ fs_result = Result("none", "None", "None")

RateInit ==
    /\ rl_limit = 1
    /\ rl_duration = 1
    /\ rl = RateLimitRule_init(0, 1)
    /\ rl_log = <<>>

KeyedInit ==
    /\ pk_kind = "per-sender"
    /\ pk = PerKey_init(0, 1)
    /\ pk_log = <<>>

FilterInit ==
    /\ rules = <<>>
    /\ applied = [evaluated |-> <<>>, out |-> "none"]
    /\ applies = 0

NoEmail == [addr_from |-> <<"a", "@", "d">>, body |-> <<>>]

SecInit ==
    /\ email = NoEmail
    /\ clock = 0
    /\ SecretInit
    /\ SenderInit
    /\ RateInit
    /\ KeyedInit
    /\ FilterInit

\* The pipeline before it is used.
NewPipe ==
    [fetch_pkg |-> "llmailbot", on_fetch |-> "MARK_READ", sec_filter |-> <<>>,
     inbox |-> [m \in MsgIds |->
                   [uid |-> TRUE, from |-> Address(<<"a">>, <<"d">>), body |-> <<"x">>,
                    there |-> TRUE, seen |-> FALSE]],
     incoming |-> <<>>, outgoing |-> <<>>, out_maxsize |-> 0, retries |-> 3,
     cur |-> 0, attempts |-> 0, fetch_state |-> "RUNNING", fetches |-> 0,
     fetch_max |-> NMsgs, fetched_times |-> [m \in MsgIds |-> 0],
     handed |-> <<>>, last_send |-> "none", send_state |-> "RUNNING",
     last_fetch |-> NoFetch, received |-> <<>>, taken |-> <<>>, replied |-> <<>>,
     last_reply |-> NoReply]

PipeInit == pipe = NewPipe

\* The reply builder before it is used.
ReplyInit ==
    rep = [reply_pkg |-> "llmailbot",
           original |-> [addr_from |-> Address(<<"a">>, <<"d">>), subject |-> <<>>,
                         message_id |-> "None", references |-> "None"],
           send_from |-> Address(<<"a">>, <<"e">>),
           reply_msg |-> NoReplyMsg]

\* The application before its configuration is loaded.
AppInit ==
    app = [config |-> [models |-> 0, worker_type |-> "thread", receive_queue |-> "None",
                       send_queue |-> "None"],
           app_pc |-> "new",
           app_exc |-> "None",
           app_executor |-> "None",
           app_queues |-> [receive |-> "None", send |-> "None"],
           runners |-> [s \in Stages |-> NewRunner],
           gather_exc |-> "None",
           first_error |-> "None"]

\* A task and the two runners made from it, before either is started.
DuoInit == duo = [rn |-> [s \in Handles |-> NewDuoRunner], run_count |-> 0]

\* A rate-limit rule made at time 0 with a window of one time unit, before
\* any thread checks it.
NewRace(limit) ==
    [rule |-> RateLimitRule_init(0, 1), limit |-> limit, duration |-> 1, time |-> 0,
     thr |-> [t \in RaceThreads |-> RaceIdle], log |-> <<>>, calls |-> 0]

RaceInit == race = NewRace(1)

\* A running fetch runner beside queues that are neither empty nor full.
HaltInit == halt = NewHalt("fetch", FALSE, FALSE, 1, 0)

\* The task runner: a new runner of either flavour.
Init ==
    /\ RunnerInit
    /\ executor \in BOOLEAN
    /\ QueueInit
    /\ maxsize = 0
    /\ EquivInit
    /\ SecInit
    /\ PipeInit
    /\ ReplyInit
    /\ AppInit
    /\ DuoInit
    /\ RaceInit
    /\ HaltInit

Next ==
    \/ \E i \in 0..MaxInterval : start(i)
    \/ cancel
    \/ wait
    \/ stop
    \/ result
    \/ run_forever_enter
    \/ step_continue
    \/ \E v \in Values : step_done(v)
    \/ \E e \in Errors, reraise \in BOOLEAN : step_raises(e, reraise)
    \/ sleep_wakes
    \/ deliver_cancel
    \/ worker_finishes
    \/ tick

Spec == Init /\ [][Next]_vars

\* The task runner with a task whose on_task_cancelled hook may raise.
HookNext ==
    \/ Next
    \/ \E e \in HookErrors : deliver_cancel_hook_raises(e)

HookSpec == Init /\ [][HookNext]_vars

\* The queue: a new queue of any capacity, used by concurrent threads.
QueueSpecInit ==
    /\ RunnerInit
    /\ executor = FALSE
    /\ QueueInit
    /\ maxsize \in 0..MaxCap
    /\ EquivInit
    /\ SecInit
    /\ PipeInit
    /\ ReplyInit
    /\ AppInit
    /\ DuoInit
    /\ RaceInit
    /\ HaltInit

QueueNext ==
    \/ \E t \in Threads, block \in BOOLEAN, timeout \in Timeouts : put(t, block, timeout)
    \/ \E t \in Threads : put_wakes(t)
    \/ \E t \in Threads : put_times_out(t)
    \/ \E t \in Threads, block \in BOOLEAN, timeout \in Timeouts : get(t, block, timeout)
    \/ \E t \in Threads : get_wakes(t)
    \/ \E t \in Threads : get_times_out(t)
    \/ q_tick

QueueSpec == QueueSpecInit /\ [][QueueNext]_vars

\* The two variants of one package, built with the same capacity and driven
\* by one caller with the same calls.
EquivSpecInit ==
    /\ RunnerInit
    /\ executor = FALSE
    /\ QueueInit
    /\ maxsize = 0
    /\ pkg \in Packages
    /\ \E n \in 0..MaxCap :
          /\ mq = MemoryQueue_init(pkg, n)
          /\ gq = ManagedQueue_init(pkg, n)
    /\ eq_ret = [m |-> <<"new">>, g |-> <<"new">>]
    /\ eq_next = 1
    /\ SecInit
    /\ PipeInit
    /\ ReplyInit
    /\ AppInit
    /\ DuoInit
    /\ RaceInit
    /\ HaltInit

EquivNext ==
    \/ \E block \in BOOLEAN, timeout \in Timeouts : both_put(block, timeout)
    \/ \E block \in BOOLEAN, timeout \in Timeouts : both_get(block, timeout)
    \/ both_is_thread_safe

EquivSpec == EquivSpecInit /\ [][EquivNext]_vars

\* What every specification of a single security rule starts from.
OthersInit ==
    /\ RunnerInit
    /\ executor = FALSE
    /\ QueueInit
    /\ maxsize = 0
    /\ EquivInit
    /\ PipeInit
    /\ ReplyInit
    /\ AppInit
    /\ DuoInit
    /\ RaceInit
    /\ HaltInit

\* The secret-key rule with any key, given any body.
SecretSpecInit ==
    /\ OthersInit
    /\ secret_key \in Keys
    /\ \E b \in Bodies : email = [NoEmail EXCEPT !.body = b]
    /\ sk_log = <<>>
    /\ clock = 0
    /\ SenderInit
    /\ RateInit
    /\ KeyedInit
    /\ FilterInit

SecretNext == secret_key_check

SecretSpec == SecretSpecInit /\ [][SecretNext]_vars

\* The sender filter in either mode, built from any set of entries.
SenderSpecInit ==
    /\ OthersInit
    /\ email = NoEmail
    /\ clock = 0
    /\ SecretInit
    /\ RateInit
    /\ KeyedInit
    /\ FilterInit
    /\ fs_entries \in SUBSET Addresses
    /\ fs_mode \in FilterModes
    /\ fs_rule = FilterSenderRule_init(fs_entries)
    /\ fs_result = Result("none", "None", "None")

SenderNext == \E sender \in Addresses : filter_sender_check(sender)

SenderSpec == SenderSpecInit /\ [][SenderNext]_vars

\* The global rate limit with any limit and window, built at time 0.
RateSpecInit ==
    /\ OthersInit
    /\ email = NoEmail
    /\ clock = 0
    /\ SecretInit
    /\ SenderInit
    /\ rl_limit \in 1..MaxLimit
    /\ rl_duration \in 1..MaxWindow
    /\ rl = RateLimitRule_init(clock, rl_duration)
    /\ rl_log = <<>>
    /\ KeyedInit
    /\ FilterInit

RateNext ==
    \/ rate_limit_check
    \/ clock_tick

RateSpec == RateSpecInit /\ [][RateNext]_vars

\* The per-sender or the per-domain rate limit with any limit and window,
\* built at time 0.
KeyedSpecInit ==
    /\ OthersInit
    /\ email = NoEmail
    /\ clock = 0
    /\ SecretInit
    /\ SenderInit
    /\ rl_limit \in 1..MaxLimit
    /\ rl_duration \in 1..MaxWindow
    /\ rl = RateLimitRule_init(clock, rl_duration)
    /\ rl_log = <<>>
    /\ pk_kind \in KeyedKinds
    /\ pk = PerKey_init(clock, rl_duration)
    /\ pk_log = <<>>
    /\ FilterInit

KeyedNext ==
    \/ \E sender \in Senders : keyed_check(sender)
    \/ clock_tick

KeyedSpec == KeyedSpecInit /\ [][KeyedNext]_vars

\* A security filter made at time 0 from any configuration that asks for at
\* least one rule: key "k", an allow list with the entry *@d, any limit, and
\* a window of one time unit.
FilterSpecInit ==
    /\ OthersInit
    /\ email = NoEmail
    /\ clock = 0
    /\ SecretInit
    /\ fs_entries = {Address(<<"*">>, <<"d">>)}
    /\ fs_mode = "ALLOWLIST"
    /\ fs_rule = FilterSenderRule_init(fs_entries)
    /\ fs_result = Result("none", "None", "None")
    /\ rl_limit \in 1..MaxLimit
    /\ rl_duration = 1
    /\ rl = RateLimitRule_init(clock, rl_duration)
    /\ rl_log = <<>>
    /\ KeyedInit
    /\ \E configured \in (SUBSET RuleKinds) \ {{}} :
          rules = make_security_filter(configured, clock)
    /\ applied = [evaluated |-> <<>>, out |-> "none"]
    /\ applies = 0

FilterNext ==
    \/ \E em \in Mails : apply(em)
    \/ clock_tick

FilterSpec == FilterSpecInit /\ [][FilterNext]_vars

\* What the specifications of the mail pipeline start from.
CoreInit ==
    /\ RunnerInit
    /\ executor = FALSE
    /\ QueueInit
    /\ maxsize = 0
    /\ EquivInit

\* The pipeline with the fetch task of either package in either fetch mode,
\* over a mailbox that holds NMsgs messages, each with or without a uid.  The
\* llmailbot task comes with or without a sender filter (allow list with the
\* entry *@d) or a secret-key rule (key "k"); the jbmailbot task has no filter.
PipeSpecInit ==
    /\ CoreInit
    /\ email = NoEmail
    /\ clock = 0
    /\ SecretInit
    /\ fs_entries = {Address(<<"*">>, <<"d">>)}
    /\ fs_mode = "ALLOWLIST"
    /\ fs_rule = FilterSenderRule_init(fs_entries)
    /\ fs_result = Result("none", "None", "None")
    /\ RateInit
    /\ KeyedInit
    /\ FilterInit
    /\ \E p \in Packages, mode \in FetchModes,
          configured \in {{}, {"filter-sender"}, {"secret-key"}},
          box \in [MsgIds -> [uid : BOOLEAN, from : PipeSenders, body : PipeBodies,
                              there : {TRUE}, seen : {FALSE}]],
          cap \in {0, MaxOutCap}, r \in {0, MaxRetries}, limit \in {1, NMsgs} :
          /\ p = "jbmailbot" => configured = {}
          \* at most one message of the mailbox has no uid
          /\ Cardinality({m \in MsgIds : ~box[m].uid}) <= 1
          \* the jbmailbot fetchers pass no limit; a limit below the size of the
          \* mailbox is tried with the mark-read fetcher
          /\ p = "jbmailbot" \/ mode = "DELETE" => limit = NMsgs
          \* without a filter the sender plays no part: one sender is enough
          /\ configured # {"filter-sender"} =>
                \A m \in MsgIds : box[m].from = Address(<<"a">>, <<"d">>)
          \* and without a secret-key rule neither does the body
          /\ configured # {"secret-key"} => \A m \in MsgIds : box[m].body = <<"x">>
          /\ pipe = [NewPipe EXCEPT !.fetch_pkg = p, !.on_fetch = mode,
                                    !.sec_filter = make_security_filter(configured, clock),
                                    !.inbox = box, !.out_maxsize = cap, !.retries = r,
                                    !.fetch_max = limit]
    /\ ReplyInit
    /\ AppInit
    /\ DuoInit
    /\ RaceInit
    /\ HaltInit

PipeNext ==
    \/ \E connect_ok \in BOOLEAN, bad_delete \in 0..NMsgs, bad_msg \in 0..NMsgs :
          fetch_step(connect_ok, bad_delete, bad_msg)
    \/ restart_fetch
    \/ reply_get
    \/ \E composed \in BOOLEAN : reply_attempt(composed)
    \/ \E sent_ok \in BOOLEAN : send_step(sent_ok)

PipeSpec == PipeSpecInit /\ [][PipeNext]_vars

\* The pipeline with runners that keep running: the reply runner goes on
\* taking messages and passing through its retry loop, the send runner goes
\* on taking replies, and the chat model and the SMTP server succeed again
\* and again.
PipeLiveSpec ==
    /\ PipeSpec
    /\ WF_vars(reply_get)
    /\ WF_vars(\E composed \in BOOLEAN : reply_attempt(composed))
    /\ SF_vars(reply_attempt(TRUE))
    /\ WF_vars(\E sent_ok \in BOOLEAN : send_step(sent_ok))
    /\ SF_vars(send_step(TRUE))

\* SimpleEmail.reply of either package, for any original and bot address.
ReplySpecInit ==
    /\ CoreInit
    /\ SecInit
    /\ PipeInit
    /\ rep \in [reply_pkg : Packages,
                original : [addr_from : PipeSenders, subject : Subjects,
                            message_id : MessageIds, references : MessageIds],
                send_from : BotAddresses,
                reply_msg : {NoReplyMsg}]
    /\ AppInit
    /\ DuoInit
    /\ RaceInit
    /\ HaltInit

ReplyNext == \E body \in ReplyBodies : build_reply(body)

ReplySpec == ReplySpecInit /\ [][ReplyNext]_vars

\* Application assembly: any configuration is loaded, then run_app runs.
AppSpecInit ==
    /\ CoreInit
    /\ SecInit
    /\ PipeInit
    /\ ReplyInit
    /\ AppInit
    /\ DuoInit
    /\ RaceInit
    /\ HaltInit

AppNext ==
    \/ \E raw \in RawConfigs : load_config(raw)
    \/ run_app
    \/ \E s \in Stages, e \in Errors : runner_fails(s, e)
    \/ \E s \in Stages : runner_completes(s)
    \/ gather_ends

AppSpec == AppSpecInit /\ [][AppNext]_vars

\* The event loop resumes run_app once the future of the gather is done.
AppLiveSpec == AppSpec /\ WF_vars(gather_ends)

\* Two runners made from one task, driven through their handles.
DuoNext ==
    \/ \E h \in Handles : duo_start(h)
    \/ \E h \in Handles, outcome \in {"None"} \cup Values \cup Errors : duo_step(h, outcome)
    \/ \E h \in Handles : duo_cancel(h)
    \/ \E h \in Handles : duo_deliver_cancel(h)
    \/ \E h \in Handles : duo_stop(h)
    \/ \E h \in Handles : duo_observe_stop(h)
    \/ \E h \in Handles : duo_wait(h)

DuoSpec == Init /\ [][DuoNext]_vars

\* One rate-limit rule with any limit, checked from several threads.
RaceSpecInit ==
    /\ CoreInit
    /\ SecInit
    /\ PipeInit
    /\ ReplyInit
    /\ AppInit
    /\ DuoInit
    /\ \E limit \in 1..MaxLimit : race = NewRace(limit)
    /\ HaltInit

RaceNext ==
    \/ \E t \in RaceThreads : race_call(t)
    \/ \E t \in RaceThreads : race_test(t)
    \/ \E t \in RaceThreads : race_reset(t)
    \/ \E t \in RaceThreads : race_load(t)
    \/ \E t \in RaceThreads : race_store(t)
    \/ \E t \in RaceThreads : race_return(t)
    \/ race_tick

RaceSpec == RaceSpecInit /\ [][RaceNext]_vars

\* The running runner of any stage, with any queue timeout and number of
\* retries, beside an input queue that stays empty or never is and an output
\* queue that stays full or never is.
HaltSpecInit ==
    /\ CoreInit
    /\ SecInit
    /\ PipeInit
    /\ ReplyInit
    /\ AppInit
    /\ DuoInit
    /\ RaceInit
    /\ \E stage \in Stages, in_empty \in BOOLEAN, out_full \in BOOLEAN,
          timeout \in 1..(MaxTimeout + 1), r \in {0, MaxRetries} :
          halt = NewHalt(stage, in_empty, out_full, timeout, r)

HaltNext ==
    \/ halt_stop
    \/ HaltProgress

HaltSpec == HaltSpecInit /\ [][HaltNext]_vars

\* The runner, its worker thread and the clock keep going: whatever they can
\* do next they eventually do.
HaltLiveSpec == HaltSpec /\ WF_vars(HaltProgress)

\* ------------------------------------------------------------------ properties
\* The driver of the current run begins a step() invocation in this transition.
StepBegins == steps_begun' = steps_begun + 1

\* C1: the lifecycle is one-shot: RUNNING is entered only from NEW, and once
\* the runner is in a terminal state no later start(), stop(), cancel(),
\* wait() or result() changes the state or lets the driver run again.
C1_OneShot ==
    [][ /\ (state' = "RUNNING" /\ state # "RUNNING" => state = "NEW")
        /\ (state \in Terminal => state' = state /\ pc' = pc) ]_vars

\* C2: once stop() has been requested on a runner whose step is in progress
\* or that is in its inter-step sleep, no new step() invocation begins.
C2_NoStepAfterStop ==
    [][ stop_req /\ pc \in {"step", "sleep"} => ~StepBegins ]_vars

\* C3: for every interleaving of stop() with the driver loop, at most one
\* step() invocation begins after the stop() request, and the step that is in
\* progress once stop is requested ends the run: as STOPPED, unless the step
\* itself ends it as COMPLETED or FAILED (or the run is cancelled).
C3_AtMostOneStepAfterStop ==
    /\ [](steps_after_stop <= 1)
    /\ [][ stop_req /\ pc = "step" /\ (pc' # pc \/ StepBegins)
           => /\ state' \in Terminal
              /\ ~StepBegins
              /\ (step_continue => state' = "STOPPED") ]_vars

\* C3 witness: the stop request arrived during the inter-step sleep, one more
\* step ran, and the runner stopped.
C3_Witness ==
    state = "STOPPED" /\ steps_after_stop = 1 /\ steps_begun = 2 /\ interval > 0

\* C4: cancel() on a RUNNING runner requests cancellation; while it is
\* pending the driver begins no step and its only move is to CANCELLED, from
\* whichever suspension point it is at, without the step in progress ending.
C4_CancelInterrupts ==
    /\ [](cancel_req => pc \in Pending /\ state = "RUNNING")
    /\ [][ /\ (cancel /\ state = "RUNNING" => cancel_req')
           /\ (cancel_req => ~StepBegins /\ prev_end' = prev_end)
           /\ (cancel_req /\ pc' # pc => state' = "CANCELLED" /\ pc' = "ended") ]_vars

\* C4 witness: a runner cancelled while its step was running in the pool.
C4_Witness ==
    state = "CANCELLED" /\ orphans = 1 /\ steps_begun = 1 /\ n_on_cancelled = 1

C6_ExceptionHook ==
    /\ [](n_hook = n_raised /\ last_hook_arg = last_raised)
    /\ [](state = "FAILED" => pc = "ended" /\ error = last_raised /\ error \in Errors)
    /\ [][ \A e \in Errors, reraise \in BOOLEAN :
             step_raises(e, reraise) =>
               /\ n_hook' = n_hook + 1
               /\ last_hook_arg' = e
               /\ (reraise => state' = "FAILED" /\ error' = e /\ ~StepBegins)
               /\ (~reraise /\ ~stop_req =>
                     state' = "RUNNING" /\ pc' \in {"step", "sleep"}
                     /\ (pc' = "step" => StepBegins)) ]_vars

\* C6 witness: the hook handled one error and returned, the loop went on, and
\* the hook re-raised a later one.
C6_Witness ==
    state = "FAILED" /\ n_hook = 2 /\ steps_begun = 2 /\ error = "e2"

\* C7: on_cancelled runs exactly once when the runner reaches CANCELLED and
\* never otherwise; on_stopped runs exactly once when it reaches STOPPED and
\* never otherwise.
C7_HooksOnce ==
    /\ n_on_cancelled = (IF state = "CANCELLED" THEN 1 ELSE 0)
    /\ n_on_stopped = (IF state = "STOPPED" THEN 1 ELSE 0)

\* C8: with an interval I, step k+1 of a run starts no earlier than
\* max(start of step k + I, end of step k); a step that took at least I is
\* followed by the next step without a sleep; and the driver never awaits two
\* step() invocations at once.
C8_IntervalCadence ==
    /\ [](in_progress = (IF pc = "step" THEN 1 ELSE 0))
    /\ [](pc = "sleep" => prev_end - start_time < interval /\ wake_at = start_time + interval)
    /\ [][ /\ (StepBegins /\ steps_begun >= 1 =>
                 start_time' >= start_time + interval /\ start_time' >= prev_end')
           /\ (pc = "step" /\ state' = "RUNNING" /\ (pc' # pc \/ StepBegins)
                 /\ now - start_time >= interval =>
                 pc' = "step" /\ StepBegins /\ start_time' = now) ]_vars

\* C8 witness: interval 2, the first step started at 0 and took 3, and the
\* second step started at 3 without a sleep.
C8_Witness ==
    interval = 2 /\ steps_begun = 2 /\ pc = "step" /\ start_time = 3 /\ prev_end = 3

\* C8 second case: interval 2, a step that took 1 is followed by a sleep that
\* is due at start + 2.
C8_WitnessSleep ==
    interval = 2 /\ pc = "sleep" /\ prev_end = start_time + 1 /\ wake_at = start_time + 2

\* seq is a prefix of full
IsPrefix(seq, full) ==
    /\ Len(seq) <= Len(full)
    /\ \A k \in 1..Len(seq) : seq[k] = full[k]

\* C9: for any interleaving of put and get calls of concurrent threads, the
\* items get has returned are a prefix of the items put, in the order the puts
\* took effect; what is left is exactly the queue's content, so no item is
\* lost, returned twice or reordered.
C9_Fifo ==
    /\ IsPrefix(get_log, put_log)
    /\ put_log = get_log \o msgq
    /\ \A j, k \in 1..Len(get_log) : j # k => get_log[j] # get_log[k]

\* C9 witness: a queue of capacity 1 through which three items went, while
\* the other thread is blocked in get.
C9_Witness ==
    /\ maxsize = 1 /\ Len(get_log) = 3 /\ Len(put_log) = 3
    /\ \E t \in Threads : q_thr[t].op = "get"

\* A get call of thread t ends in this step without an item.
GetEndsEmpty(t) ==
    \/ q_thr[t].op = "get" /\ get_times_out(t)
    \/ /\ q_thr[t].op = "idle" /\ q_thr'[t].op = "idle"
       /\ IsEmpty
       /\ q_ret'.thr = t
       /\ \E block \in BOOLEAN, timeout \in Timeouts : get(t, block, timeout)

\* C10: a get that finds the queue empty for its whole timeout returns None,
\* raises nothing, and leaves the queue as it was.
C10_EmptyGetReturnsNone ==
    /\ [](q_ret.op = "get" => q_ret.out \in {"item", "None"})
    /\ [][ \A t \in Threads :
             /\ (GetEndsEmpty(t) =>
                   /\ q_ret' = [thr |-> t, op |-> "get", out |-> "None"]
                   /\ msgq' = msgq /\ msgq = <<>>
                   /\ put_log' = put_log /\ get_log' = get_log)
             /\ (q_thr[t].op = "get" /\ q_thr'[t].op = "idle" =>
                   /\ q_ret'.thr = t
                   /\ \/ q_ret'.out = "item" /\ Len(msgq') = Len(msgq) - 1
                      \/ q_ret'.out = "None" /\ q_thr[t].remaining = 0 /\ msgq = <<>>) ]_vars

\* C10 witness: a thread's get returned None on a queue that had items
\* before and is empty again.
C10_Witness ==
    /\ msgq = <<>> /\ Len(get_log) >= 1
    /\ q_ret.op = "get" /\ q_ret.out = "None" /\ q_thr[q_ret.thr] = Idle

\* A blocked put call of thread t ends in this step.
PutEnds(t) == q_thr[t].op = "put" /\ q_thr'[t].op = "idle"

\* Thread t calls put in this step and the call ends at once.
PutCallEnds(t) ==
    /\ q_thr[t].op = "idle" /\ q_thr' = q_thr
    /\ next_item' = next_item + 1
    /\ q_ret'.thr = t

\* C11: a queue of capacity C > 0 never holds more than C items; a put that
\* finds the queue full for its whole timeout (or at once, when it does not
\* wait) fails with Full and leaves the contents unchanged, and no other put
\* fails; a queue of capacity 0 is unbounded and its put never fails with Full.
C11_Capacity ==
    /\ [](maxsize > 0 => Len(msgq) <= maxsize)
    /\ [](maxsize = 0 => q_ret.out # "Full" /\ \A t \in Threads : q_thr[t].op # "put")
    /\ [][ \A t \in Threads :
             /\ (PutEnds(t) /\ IsFull =>
                   /\ q_thr[t].remaining = 0
                   /\ q_ret' = Ret(t, "put", "Full")
                   /\ msgq' = msgq /\ put_log' = put_log /\ get_log' = get_log)
             /\ (PutEnds(t) /\ ~IsFull =>
                   /\ q_ret' = Ret(t, "put", "ok")
                   /\ msgq' = Append(msgq, q_thr[t].item))
             /\ (PutCallEnds(t) /\ IsFull =>
                   /\ q_ret' = Ret(t, "put", "Full")
                   /\ msgq' = msgq /\ put_log' = put_log /\ get_log' = get_log)
             /\ (PutCallEnds(t) /\ ~IsFull =>
                   /\ q_ret' = Ret(t, "put", "ok")
                   /\ msgq' = Append(msgq, next_item)) ]_vars

\* C11 witness: a queue of capacity 2 holds 2 items, a put on it has just
\* failed with Full, and the thread that made it is idle again.
C11_Witness ==
    /\ maxsize = 2 /\ Len(msgq) = 2
    /\ q_ret.op = "put" /\ q_ret.out = "Full" /\ q_thr[q_ret.thr] = Idle

\* C12: the in-process and the cross-process queue variant, created with
\* the same capacity and given the same put/get calls, return the same items,
\* the same absences and the same Full errors, and hold the same items.
C12_Equivalent == eq_ret.m = eq_ret.g /\ mq.items = gq.items

\* C19: the secret-key rule ALLOWs exactly the bodies that, without their
\* leading whitespace, start with the key; on ALLOW the body becomes the
\* stripped body without that key, stripped again; otherwise the rule BLOCKs
\* with reason "secret key check failed" and the body stays as it was.
C19_SecretKey ==
    \A i \in 1..Len(sk_log) :
        LET b == sk_log[i].before
            after == IF i < Len(sk_log) THEN sk_log[i + 1].before ELSE email.body
        IN  IF startswith(lstrip(b), secret_key)
            THEN /\ sk_log[i].action = "ALLOW"
                 /\ after = lstrip(slice_from(lstrip(b), Len(secret_key)))
            ELSE /\ sk_log[i].action = "BLOCK"
                 /\ sk_log[i].reason = "secret key check failed"
                 /\ after = b

\* The first check ALLOWed the body, and the rule was applied a second time.
Rechecked == Len(sk_log) >= 2 /\ sk_log[1].action = "ALLOW"

Matches(sender) ==
    \E l \in LocalParts, d \in DomainParts :
        /\ sender = Address(l, d)
        /\ sender \in fs_entries \/ Address(<<"*">>, d) \in fs_entries

\* C14: a sender matches exactly when its address is an entry or the
\* wildcard entry of its domain is one; in ALLOWLIST mode the rule BLOCKs
\* exactly the senders that do not match, in DENYLIST mode exactly those that
\* match.
C14_FilterSender ==
    fs_result.action # "none" =>
        /\ is_in_list(fs_rule, email.addr_from) <=> Matches(email.addr_from)
        /\ fs_mode = "ALLOWLIST" =>
              (fs_result.action = "BLOCK" <=> ~Matches(email.addr_from))
        /\ fs_mode = "DENYLIST" =>
              (fs_result.action = "BLOCK" <=> Matches(email.addr_from))
        /\ fs_result.action \in {"ALLOW", "BLOCK"}

\* C14 witness: an allow list holding only *@d has let a@d through.
C14_Witness ==
    /\ fs_mode = "ALLOWLIST"
    /\ fs_entries = {Address(<<"*">>, <<"d">>)}
    /\ email.addr_from = Address(<<"a">>, <<"d">>)
    /\ fs_result.action = "ALLOW"

\* The number of checks in the log that ALLOWed and satisfy P.
Allowed(log, P(_)) == Cardinality({i \in 1..Len(log) : log[i].action = "ALLOW" /\ P(log[i])})

\* C15 as stated: at most L checks ALLOW within any time interval of length W,
\* wherever the interval starts.
C15_SlidingWindow ==
    \A from \in 0..MaxClock :
        LET Within(c) == from <= c.t /\ c.t < from + rl_duration
        IN  Allowed(rl_log, Within) <= rl_limit

\* C15 amended: at most L checks ALLOW within one counting window of the rule
\* (the checks that share one limit_expiry), and at most 2 * L within any time
\* interval of length W.
C15_CountingWindow ==
    /\ \A i \in 1..Len(rl_log) :
          LET SameWindow(c) == c.limit_expiry = rl_log[i].limit_expiry
          IN  Allowed(rl_log, SameWindow) <= rl_limit
    /\ \A from \in 0..MaxClock :
          LET Within(c) == from <= c.t /\ c.t <= from + rl_duration
          IN  Allowed(rl_log, Within) <= 2 * rl_limit

\* C15 witness: with L = 1 and W = 2 a check at the last instant of one
\* window and a check one time unit later, in the next window, both ALLOWed.
C15_Witness ==
    /\ rl_limit = 1 /\ rl_duration = 2
    /\ Len(rl_log) = 2
    /\ rl_log[1].t = 2 /\ rl_log[1].action = "ALLOW"
    /\ rl_log[2].t = 3 /\ rl_log[2].action = "ALLOW"

\* C16: a check at time t first resets the counter to 0 and moves the expiry
\* to t + W exactly when t > expiry (a check at the expiry itself still
\* counts in the old window), then counts itself, also when it ends in BLOCK,
\* and BLOCKs exactly when the counter now exceeds L; so in one counting
\* window exactly the first L checks ALLOW, and the first check after the
\* expiry ALLOWs.
C16_IncreaseAndCheck ==
    /\ [][ rl_log' # rl_log =>
             LET expired == clock > rl.limit_expiry
                 n == IF expired THEN 1 ELSE rl.count + 1
                 last == rl_log'[Len(rl_log')]
             IN  /\ rl'.limit_expiry = IF expired THEN clock + rl_duration ELSE rl.limit_expiry
                 /\ rl'.count = n
                 /\ last.action = "BLOCK" <=> n > rl_limit
                 /\ last.action = "ALLOW" <=> n <= rl_limit
                 /\ expired => last.action = "ALLOW" ]_vars
    /\ [](\A i \in 1..Len(rl_log) :
             /\ rl_log[i].count =
                   Cardinality({j \in 1..i : rl_log[j].limit_expiry = rl_log[i].limit_expiry})
             /\ rl_log[i].action = "ALLOW" <=> rl_log[i].count <= rl_limit)

\* C16 witness: with L = 2 and W = 1, as in the written scenario: two checks
\* ALLOW, the third in the same window BLOCKs, and a fourth after the expiry
\* ALLOWs.
C16_Witness ==
    /\ rl_limit = 2 /\ rl_duration = 1
    /\ Len(rl_log) = 4
    /\ rl_log[1].action = "ALLOW" /\ rl_log[2].action = "ALLOW"
    /\ rl_log[3].action = "BLOCK" /\ rl_log[3].count = 3
    /\ rl_log[3].t = rl_log[1].t
    /\ rl_log[4].t > rl_log[3].limit_expiry /\ rl_log[4].action = "ALLOW"

RECURSIVE SeparateRule(_, _, _)
\* A global rule of its own for the key, created at the first check for the
\* key and fed only the checks for that key among the first n of the log:
\* the rule afterwards and the action of its last check.
SeparateRule(log, key, n) ==
    IF n = 0
    THEN [seen |-> FALSE, rule |-> RateLimitRule_init(0, rl_duration), action |-> "none"]
    ELSE LET prev == SeparateRule(log, key, n - 1)
         IN  IF log[n].key # key THEN prev
             ELSE LET own == IF prev.seen THEN prev.rule
                             ELSE RateLimitRule_init(log[n].t, rl_duration)
                      r == RateLimitRule_increase_and_check(own, log[n].t,
                                                            rl_duration, rl_limit)
                  IN  [seen |-> TRUE, rule |-> r.rule, action |-> r.result.action]

\* The per-key rule makes a check in this step.
KeyedCheck == pk_log' # pk_log

\* C17: every check for a key k ends as a global rule of its own with the
\* same L and W would end it when fed only the checks for k; and a check for
\* k leaves the entry of every other key that has not expired as it is.
C17_PerKeyIndependent ==
    /\ [](\A i \in 1..Len(pk_log) :
             pk_log[i].action = SeparateRule(pk_log, pk_log[i].key, i).action)
    /\ [][ KeyedCheck =>
             \A i \in 1..Len(pk.rate_limits) :
                 LET entry == pk.rate_limits[i]
                 IN  (/\ entry.key # pk_log'[Len(pk_log')].key
                      /\ ~RateLimitRule_is_expired(entry.rule, clock))
                     => \E j \in 1..Len(pk'.rate_limits) : pk'.rate_limits[j] = entry ]_vars

\* The keys checked at or after the given time.
KeysSince(log, t) == {log[i].key : i \in {j \in 1..Len(log) : log[j].t >= t}}

\* C18: a check at a time t > _next_purge leaves no entry whose window ended
\* before t and sets _next_purge to t + W; after any check the table holds
\* no more entries than there are distinct keys checked during the last 2 * W.
C18_Purge ==
    /\ [][ KeyedCheck /\ clock > pk.next_purge =>
             /\ pk'.next_purge = clock + rl_duration
             /\ \A i \in 1..Len(pk'.rate_limits) :
                    pk'.rate_limits[i].rule.limit_expiry >= clock ]_vars
    /\ [](pk_log # <<>> =>
             LET last == pk_log[Len(pk_log)].t
             IN  Len(pk.rate_limits)
                   <= Cardinality(KeysSince(pk_log, last - 2 * rl_duration)))

\* C13: apply evaluates the rules in their order and stops at the first
\* BLOCK: it returns the message exactly when every rule returned ALLOW, and
\* None exactly when some rule returned BLOCK, and then no rule after the
\* first blocking rule has been evaluated.
C13_ApplyInOrder ==
    applied.out # "none" =>
        LET ev == applied.evaluated
        IN  /\ Len(ev) <= Len(rules)
            /\ \A j \in 1..Len(ev) : ev[j].rule = j
            /\ applied.out = "email" <=>
                  (Len(ev) = Len(rules) /\ \A j \in 1..Len(ev) : ev[j].action = "ALLOW")
            /\ applied.out = "None" <=> \E j \in 1..Len(ev) : ev[j].action = "BLOCK"
            /\ \A j \in 1..Len(ev) : ev[j].action = "BLOCK" => j = Len(ev)

\* C13 witness: a filter of five rules whose third rule BLOCKed after two
\* ALLOWs; the message was dropped and the last two rules were not evaluated.
C13_Witness ==
    /\ Len(rules) = 5
    /\ Len(applied.evaluated) = 3
    /\ applied.evaluated[1].action = "ALLOW"
    /\ applied.evaluated[2].action = "ALLOW"
    /\ applied.evaluated[3].action = "BLOCK"
    /\ applied.out = "None"

\* ------------------------------------------------------------------ mail pipeline properties
\* How often x occurs in seq.
Count(seq, x) == Cardinality({i \in 1..Len(seq) : seq[i] = x})

\* C21: in a fetch step that ran to its end, every message of the batch that
\* has a uid and for which the security filter returned ALLOW was put on the
\* incoming queue exactly once, and in no fetch step was a message put that
\* the filter BLOCKed.
C21_AllowedEnqueuedOnce ==
    /\ last_fetch.out = "None" =>
          \A m \in MsgIds :
              inbox[m].uid /\ last_fetch.verdict[m] = "ALLOW" => Count(last_fetch.put, m) = 1
    /\ \A m \in MsgIds : last_fetch.verdict[m] = "BLOCK" => Count(last_fetch.put, m) = 0

\* The security filter let message m through: there is no filter, or apply
\* returns the message.
Passed(m) ==
    \/ sec_filter = <<>>
    \/ SecurityFilter_apply(sec_filter, parsed(inbox[m]), clock, 1, <<>>).out = "email"

\* C22: every message in the outgoing queue is the reply to a message that was
\* taken from the incoming queue before and that had passed the security
\* filter, and whatever is put on the outgoing queue is the reply to the
\* message the reply step took last.
C22_NoManufacturedReplies ==
    /\ [](\A i \in 1..Len(outgoing) :
             \E j \in 1..Len(taken) :
                 /\ outgoing[i].reply_to = taken[j]
                 /\ Passed(taken[j]))
    /\ [][Len(outgoing') > Len(outgoing) =>
             /\ taken # <<>>
             /\ outgoing' = Append(outgoing, [reply_to |-> taken[Len(taken)]])]_vars

\* A reply is in the outgoing queue.
C22_Witness == outgoing # <<>> /\ outgoing[1].reply_to \in MsgIds

\* C23: for every message on the mail server at most one reply is ever put on
\* the outgoing queue, whatever fetch steps, retries, failures and restarts
\* happen, in both fetch modes.
C23_AtMostOneReply == \A m \in MsgIds : Count(replied, m) <= 1

\* ------------------------------------------------------------------ reply message properties
\* str in lower case
lower(str) ==
    [i \in 1..Len(str) |-> CASE str[i] = "R" -> "r" [] str[i] = "E" -> "e" [] OTHER -> str[i]]

\* The subject begins with "Re: ", compared case-insensitively.
HasRe(subject) == startswith(lower(subject), lower(Re))

\* C24: the reply built for original m and bot address a has from = a, to =
\* exactly m.from, in_reply_to = m.message_id, references = m.references, and
\* as subject m.subject when that already begins with "Re: " (in any case) and
\* "Re: " followed by m.subject otherwise.
C24_ReplyFields ==
    reply_msg # NoReplyMsg =>
        /\ reply_msg.addr_from = send_from
        /\ reply_msg.addr_to = <<original.addr_from>>
        /\ reply_msg.in_reply_to = original.message_id
        /\ reply_msg.references = original.references
        /\ reply_msg.subject = IF HasRe(original.subject) THEN original.subject
                                                          ELSE Re \o original.subject

\* ------------------------------------------------------------------ application assembly properties
\* run_app accepted the configuration: it started the runners.
Accepted == app_pc \in {"gathering", "returned"} \/ (app_pc = "raised" /\ app_exc # "ConfigError")

\* C25: whenever assembly has accepted a configuration, both queues are safe
\* for the executor it made: process-safe with a process pool, thread-safe
\* with a thread pool; so no runner is ever started with a process pool and an
\* in-process queue.
C25_QueuesMatchExecutor ==
    Accepted =>
        /\ app_executor = "process" =>
              is_process_safe(app_queues.receive) /\ is_process_safe(app_queues.send)
        /\ app_executor = "thread" =>
              is_thread_safe(app_queues.receive) /\ is_thread_safe(app_queues.send)


\* Some runner has reached FAILED.
SomeRunnerFailed == \E s \in Stages : runners[s].state = "FAILED"

\* C26: once a runner has reached FAILED with error e, the run of the
\* application never returns normally; it ends by raising, to its caller, the
\* error of the runner that failed first; and no runner is started a second
\* time or leaves FAILED.
C26_FirstFailureSurfaces ==
    /\ [](SomeRunnerFailed => app_pc # "returned")
    /\ [](app_pc = "raised" /\ app_exc # "ConfigError"
            => first_error # "None" /\ app_exc = first_error)
    /\ [](\A s \in Stages : runners[s].starts <= 1)
    /\ [][\A s \in Stages : runners[s].state = "FAILED" => runners'[s] = runners[s]]_vars
    /\ (SomeRunnerFailed ~> (app_pc = "raised" /\ app_exc = first_error))

\* Two runners failed with different errors and the run raised the first.
C26_Witness ==
    /\ app_pc = "raised"
    /\ app_exc = first_error
    /\ \E s \in Stages : runners[s].state = "FAILED" /\ runners[s].error # first_error


\* ------------------------------------------------------------------ fetch failures, reply retries, reply order
\* C27: an exception raised inside a fetch step ends only that step: the
\* fetch runner never moves to FAILED.
C27_FetchRunnerSurvives == fetch_state # "FAILED"


\* The reply task is inside the retry loop for the message it took.
InRetryLoop == cur # 0 /\ last_reply.msg = cur /\ attempts > 0

\* C28: for a message taken from the incoming queue the reply task makes at
\* most 1 + retries attempts at generating the reply and makes no further
\* attempt once one has succeeded; a message is dropped without a reply being
\* enqueued and without the message going back on a queue.
C28_BoundedRetriesStopAtSuccess ==
    /\ [](attempts <= retries /\ last_reply.attempts <= retries + 1)
    /\ [](InRetryLoop => last_reply.out # "put failed")
    /\ [][last_reply' # last_reply /\ last_reply'.out \in {"dropped", "dropped, put failed"}
            => outgoing' = outgoing /\ incoming' = incoming /\ cur' = 0]_vars


\* sub is seq with some elements left out, the order kept
RECURSIVE IsSubseq(_, _)
IsSubseq(sub, seq) ==
    IF sub = <<>> THEN TRUE
    ELSE IF seq = <<>> THEN FALSE
    ELSE IF Head(sub) = Head(seq) THEN IsSubseq(Tail(sub), Tail(seq))
    ELSE IsSubseq(sub, Tail(seq))

\* C29: with one reply-spawn runner the replies are put on the outgoing queue
\* in the order in which their originals were taken from the incoming queue,
\* each at the tail and for the message taken last; and no message is taken
\* while the one before it is still being processed.
C29_RepliesInDequeueOrder ==
    /\ [](IsSubseq(replied, taken))
    /\ [](cur # 0 => taken # <<>> /\ cur = taken[Len(taken)])
    /\ [](\E k \in 0..Len(replied) :
            outgoing = [i \in 1..(Len(replied) - k) |-> Reply(replied[k + i])])
    /\ [][replied' # replied =>
            /\ cur # 0 /\ cur' = 0
            /\ replied' = Append(replied, cur)
            /\ outgoing' = Append(outgoing, Reply(cur))]_vars
    /\ [][taken' # taken => cur = 0 /\ taken' = Append(taken, Head(incoming))]_vars

\* Two different messages were replied to and both replies are waiting.
C29_Witness ==
    /\ Len(replied) >= 2
    /\ Len(outgoing) = 2
    /\ outgoing[1] # outgoing[2]


\* ------------------------------------------------------------------ cancellation during a blocking step
\* C30: when the driver is cancelled while its step is executing in the worker
\* pool, the runner becomes CANCELLED at once and the worker is left to finish
\* the step; when the worker finishes, the runner's state, result and error
\* stay as they are and no hook is called; and a CANCELLED runner begins no
\* further step.
C30_CancelDiscardsBlockingStep ==
    /\ [][cancel_req /\ pc = "step" /\ executor /\ state' = "CANCELLED"
            => orphans' = orphans + 1 /\ pc' = "ended" /\ done' = done /\ error' = error]_vars
    /\ [][orphans' < orphans
            => /\ state' = state /\ pc' = pc /\ done' = done /\ error' = error
               /\ n_hook' = n_hook /\ n_raised' = n_raised
               /\ n_on_cancelled' = n_on_cancelled /\ steps_begun' = steps_begun]_vars
    /\ [][state = "CANCELLED" /\ state' = "CANCELLED"
            => steps_begun' = steps_begun /\ in_progress' = in_progress]_vars
    /\ [](state = "CANCELLED" => in_progress = 0)

\* The runner is CANCELLED while the worker still runs the abandoned step.
C30_Witness == executor /\ state = "CANCELLED" /\ orphans > 0 /\ steps_begun > 0

\* ------------------------------------------------------------------ totality of the per-key check
\* The count the entry of key holds within its running window, 0 when the key
\* has no entry or its window has ended.
RunningCount(rate_limits, key, t) ==
    IF Slots(rate_limits, key) = {} THEN 0
    ELSE LET i == CHOOSE i \in Slots(rate_limits, key) : TRUE
         IN  IF RateLimitRule_is_expired(rate_limits[i].rule, t)
             THEN 0 ELSE rate_limits[i].rule.count

\* C37: every per-sender or per-domain check returns ALLOW or BLOCK and never
\* raises, also when its purge removes expired entries of other keys; and it
\* increments the counter of its own key exactly once.
C37_KeyedCheckTotal ==
    /\ [](\A i \in 1..Len(pk_log) : pk_log[i].action \in {"ALLOW", "BLOCK"})
    /\ [][ KeyedCheck =>
             LET key == pk_log'[Len(pk_log')].key
             IN  RunningCount(pk'.rate_limits, key, clock)
                   = RunningCount(pk.rate_limits, key, clock) + 1 ]_vars

\* ------------------------------------------------------------------ frame of a BLOCK
IsRateLimit(kind) == kind \in {"rate-limit-global", "per-domain", "per-sender"}

\* The rule counted the message from the given sender once at time t.
CountedOnce(before, after, sender, t) ==
    IF before.kind = "rate-limit-global"
    THEN after.state.count
           = (IF RateLimitRule_is_expired(before.state, t) THEN 0 ELSE before.state.count) + 1
    ELSE LET key == KeyOf(before.kind, sender)
         IN  RunningCount(after.state.rate_limits, key, t)
               = RunningCount(before.state.rate_limits, key, t) + 1

\* C38: when apply ends with a BLOCK by rule b, every rule after b is as it
\* was before the call, and every rate-limit rule before b has counted the
\* message once: a message BLOCKed by the per-domain or per-sender limit has
\* consumed one unit of the global limit.
C38_BlockFrame ==
    [][ applies' = applies + 1 /\ applied'.out = "None" =>
          LET b == Len(applied'.evaluated)
          IN  /\ applied'.evaluated[b].action = "BLOCK"
              /\ \A j \in (b + 1)..Len(rules) : rules'[j] = rules[j]
              /\ \A j \in 1..(b - 1) :
                    IsRateLimit(rules[j].kind) =>
                        CountedOnce(rules[j], rules'[j], email'.addr_from, clock) ]_vars

\* C38 witness: the global limit allowed the message, the per-domain limit
\* BLOCKed it, and a per-sender limit stands after it.
C38_Witness ==
    /\ applied.out = "None"
    /\ \E b \in 2..(Len(rules) - 1) :
          /\ Len(applied.evaluated) = b
          /\ rules[b].kind = "per-domain"
          /\ rules[b - 1].kind = "rate-limit-global"
          /\ rules[b + 1].kind = "per-sender"

\* ------------------------------------------------------------------ mark-read fetches a message once
\* C40: in mark-read mode a message is returned by at most one fetch step,
\* whatever became of that step: the fetch marks it read on the server, the
\* flag is never taken back, and the query of a later step selects unread
\* messages only.
C40_MarkReadFetchesOnce ==
    /\ [](on_fetch = "MARK_READ" => \A m \in MsgIds : fetched_times[m] <= 1)
    /\ [][ on_fetch = "MARK_READ" /\ fetches' = fetches + 1 =>
             \A i \in 1..Len(last_fetch'.batch) :
                 LET m == last_fetch'.batch[i]
                 IN  ~inbox[m].seen /\ inbox'[m].seen ]_vars
    /\ [][ \A m \in MsgIds : inbox[m].seen => inbox'[m].seen ]_vars

\* C40 witness: in mark-read mode a step fetched a message and raised before
\* the message was filtered or enqueued, and a later step fetched another
\* message and not that one.
C40_Witness ==
    /\ on_fetch = "MARK_READ"
    /\ fetches = 2
    /\ last_fetch.batch # <<>>
    /\ \E m \in MsgIds :
          /\ fetched_times[m] = 1
          /\ \A i \in 1..Len(last_fetch.batch) : last_fetch.batch[i] # m
          /\ \A i \in 1..Len(received) : received[i] # m

\* ------------------------------------------------------------------ a reply is handed over once
\* C39: each message taken from the outgoing queue is handed to the sender
\* at most once: a step that takes a message hands over that message and
\* leaves the rest of the queue, whether or not the sender raised; what was
\* handed over together with what is still queued is exactly what the reply
\* stage put, in order; and the send runner goes on after a failure.
C39_HandedOverOnce ==
    /\ [](handed \o [i \in 1..Len(outgoing) |-> outgoing[i].reply_to] = replied)
    /\ [][ Len(handed') > Len(handed) =>
             /\ outgoing # <<>>
             /\ handed' = Append(handed, Head(outgoing).reply_to)
             /\ outgoing' = Tail(outgoing) ]_vars
    /\ [](send_state = "RUNNING")

\* C39 witness: the sender raised for a reply that was taken from the queue;
\* the reply is not in the queue, the reply put after it waits there, and
\* the send runner is running.
C39_Witness ==
    /\ last_send = "raised"
    /\ handed # <<>>
    /\ outgoing # <<>>
    /\ Head(outgoing).reply_to # handed[Len(handed)]
    /\ send_state = "RUNNING"

\* ------------------------------------------------------------------ the stripped body downstream
HasSecretKeyRule == \E i \in 1..Len(sec_filter) : sec_filter[i].kind = "secret-key"

\* The body of message m after the filter has been applied to it.
FilteredBody(m) == SecurityFilter_apply(sec_filter, parsed(inbox[m]), clock, 1, <<>>).email.body

\* The body the reply stage gets from the queue entry of message m: the
\* entry is the raw message, which the reply stage parses.
BodyTaken(m) == parsed(inbox[m]).body

\* C33: a message the secret-key rule ALLOWs is put on the incoming queue by
\* the fetch step, and what the reply stage takes for it carries the body
\* with the key removed.
C33_StrippedBodyDownstream ==
    [][ fetches' = fetches + 1 /\ HasSecretKeyRule =>
          \A m \in MsgIds :
              last_fetch'.verdict[m] = "ALLOW" =>
                  /\ \E i \in 1..Len(last_fetch'.put) : last_fetch'.put[i] = m
                  /\ BodyTaken(m) = FilteredBody(m) ]_vars

\* ------------------------------------------------------------------ every accepted message is answered
\* The last fetch step returned without raising, message m was in its batch
\* with a uid, and the filter, if there is one, let it pass.
Accepted_by_fetch(m) ==
    /\ last_fetch.out = "None"
    /\ \E i \in 1..Len(last_fetch.batch) : last_fetch.batch[i] = m
    /\ inbox[m].uid
    /\ sec_filter = <<>> \/ last_fetch.verdict[m] = "ALLOW"

\* C32: with runners that keep running and a chat model and an SMTP server
\* that succeed again and again, every fetched message that has a uid and
\* passes the filter eventually has its reply handed to the SMTP sender.
C32_AcceptedEventuallySent ==
    \A m \in MsgIds :
        (fetch_state = "RUNNING" /\ Accepted_by_fetch(m)) ~> (\E i \in 1..Len(handed) : handed[i] = m)

\* ------------------------------------------------------------------ hooks that raise
\* C35: an exception raised by the on_cancelled or the on_stopped hook is
\* swallowed: the transition on which the hook runs still ends in CANCELLED
\* or STOPPED, and neither wait() nor result() reports what the hook raised.
C35_HookExceptionSwallowed ==
    /\ [][ n_on_cancelled' = n_on_cancelled + 1 => state' = "CANCELLED" ]_vars
    /\ [][ n_on_stopped' = n_on_stopped + 1 => state' = "STOPPED" ]_vars
    /\ [](last_call.op \in {"wait", "result"} => last_call.val \notin HookErrors)

\* ------------------------------------------------------------------ independent runners
\* C36: two runners made from the same task have lifecycles of their own:
\* whatever happens (a start, stop, cancel, step or termination of one
\* runner) leaves what the holder of the other handle sees unchanged; each
\* runner counts its own steps, and the shared task has run once for every
\* step of either.
C36_IndependentRunners ==
    /\ [][ \E h \in Handles : \A o \in Handles \ {h} : View(o)' = View(o) ]_vars
    /\ [](duo.run_count = View(1).steps + View(2).steps)

\* C36 witness: started from the same task, one runner completed with a
\* result while the other was cancelled.
C36_Witness ==
    /\ View(1).state = "COMPLETED" /\ View(1).done = "v1"
    /\ View(2).state = "CANCELLED" /\ View(2).done = "None"
    /\ View(2).steps >= 1

\* ------------------------------------------------------------------ atomic checks
\* The checks counted in the window that ends at w, and those of them that
\* returned ALLOW.
ChecksIn(w) == {i \in 1..Len(race.log) : race.log[i].window = w}
AllowedIn(w) == {i \in ChecksIn(w) : race.log[i].action = "ALLOW"}

\* C34: concurrent checks of one rate-limit rule take effect one after
\* another: no increment is lost (when no check is under way the counter
\* equals the number of checks made in the current window), and at most L of
\* the checks made in one window return ALLOW.
C34_ChecksAtomic ==
    /\ (\A t \in RaceThreads : race.thr[t].pc = "idle") =>
           race.rule.count = Cardinality(ChecksIn(race.rule.limit_expiry))
    /\ \A i \in 1..Len(race.log) : Cardinality(AllowedIn(race.log[i].window)) <= race.limit

\* ------------------------------------------------------------------ stop is always observed
\* C31: after stop() is requested on the runner of a stage, the runner
\* eventually reaches STOPPED, also beside an input queue that stays empty
\* and an output queue that stays full forever.
C31_StopEventuallyStops == halt.stop_req ~> halt.state = "STOPPED"

====
